---- MODULE Spec2Model ----
(***************************************************************************)
(* A model of the rusty_wren parser: the ParseResult algebra of            *)
(* src/parser/result.rs, the token access of src/parser/lexer.rs and the   *)
(* token! macro of src/parser/mod.rs, and the grammar rules of             *)
(* src/parser/parser.rs.                                                   *)
(*                                                                         *)
(* A ParseResult is a record                                               *)
(*    tag  "Success" | "Fail" | "Error" | "Diverges"                       *)
(*    val  the value of a Success (<<>> otherwise)                         *)
(*    pos  the usize of Success(_, pos), Fail(pos), or of the error        *)
(*    err  the ParseError variant of an Error ("" otherwise)               *)
(* with two history fields that record what the evaluation did:            *)
(*    inv  the sequence of <<rule, pos>> invocations of abstract rules     *)
(*    tk   the set of indices handed to CypherLexer::token                 *)
(* "Diverges" stands for a call that never returns (the loop of            *)
(* then_multi_combine on a rule that succeeds without advancing).          *)
(***************************************************************************)
EXTENDS Integers, Sequences, FiniteSets, TLC

VARIABLES tokens, table, op, arg, out

vars == <<tokens, table, op, arg, out>>

\* ------------------------------------------------------------------------
\* ParseResult and ParseError
\* ------------------------------------------------------------------------

Success(v, p) == [tag |-> "Success", val |-> v, pos |-> p, err |-> "", inv |-> <<>>, tk |-> {}]

Fail(p) == [tag |-> "Fail", val |-> <<>>, pos |-> p, err |-> "", inv |-> <<>>, tk |-> {}]

Error(e, p) == [tag |-> "Error", val |-> <<>>, pos |-> p, err |-> e, inv |-> <<>>, tk |-> {}]

Diverges == [tag |-> "Diverges", val |-> <<>>, pos |-> 0, err |-> "", inv |-> <<>>, tk |-> {}]

\* the variants of ParseError that carry no token index are given index 0
HardErrors == {"BadToken", "FailedOnValidation", "FinishedOnFail", "UnreachedEOF"}

IsSuccess(r) == r.tag = "Success"

IsFail(r) == r.tag = "Fail"

IsReachedEOF(r) == r.tag = "Error" /\ r.err = "ReachedEOF"

IsSoft(r) == IsFail(r) \/ IsReachedEOF(r)

IsHard(r) == r.tag = "Error" /\ r.err # "ReachedEOF"

\* the ParseResult itself, without the history fields
Res(r) == [tag |-> r.tag, val |-> r.val, pos |-> r.pos, err |-> r.err]

\* r was computed after prev: its history follows prev's
After(prev, r) == [r EXCEPT !.inv = prev.inv \o r.inv, !.tk = prev.tk \cup r.tk]

\* ------------------------------------------------------------------------
\* result.rs: the combinators
\* ------------------------------------------------------------------------

\* result.rs:271-280
map(self, mapper(_)) ==
    IF IsSuccess(self) THEN [self EXCEPT !.val = mapper(self.val)] ELSE self

Some(x) == <<"Some", x>>

None == <<"None">>

ok(self) == map(self, Some)

take_left(self) == map(self, LAMBDA v : v[1])

take_right(self) == map(self, LAMBDA v : v[2])

\* (h, rest) -> [h] ++ rest
merge(self) == map(self, LAMBDA v : <<v[1]>> \o v[2])

\* the match on then(pos) taking ReachedEOF for a Fail
then_arms_soft_eof(r, v) ==
    IF IsSuccess(r) THEN [r EXCEPT !.val = v]
    ELSE IF IsReachedEOF(r) THEN [r EXCEPT !.tag = "Fail", !.err = ""]
    ELSE r

\* the match on then(pos) of then_combine, v being combine(t, r) of a Success
then_arms(r, v) == IF IsSuccess(r) THEN [r EXCEPT !.val = v] ELSE r

\* result.rs:80-98
then_combine(self, thn(_), combine(_, _)) ==
    IF IsSuccess(self)
    THEN LET r == After(self, thn(self.pos))
         IN  then_arms(r, combine(self.val, r.val))
    ELSE self

\* result.rs:54-59
then_zip(self, thn(_)) == then_combine(self, thn, LAMBDA a, b : <<a, b>>)

\* result.rs:168-173
then(self, next(_)) == then_combine(self, next, LAMBDA a, b : b)

\* result.rs:135-155
then_or_val_combine(self, thn(_), default, combine(_, _)) ==
    IF IsSuccess(self)
    THEN LET r == After(self, thn(self.pos))
         IN  IF IsSuccess(r) THEN [r EXCEPT !.val = combine(self.val, r.val)]
             ELSE IF IsFail(r) \/ IsReachedEOF(r)
                  THEN [r EXCEPT !.tag = "Success", !.err = "",
                                 !.val = combine(self.val, default)]
                  ELSE r
    ELSE self

\* result.rs:60-65
then_or_val_zip(self, thn(_), default) ==
    then_or_val_combine(self, thn, default, LAMBDA a, b : <<a, b>>)

\* result.rs:156-166
then_or_none_combine(self, thn(_), combine(_, _)) ==
    then_or_val_combine(self, thn, None, combine)

\* result.rs:67-72
then_or_none_zip(self, thn(_)) ==
    then_or_none_combine(self, thn, LAMBDA a, b : <<a, b>>)

\* or_val giving the default for every Error
or_val_any_error(self, default) ==
    IF IsSuccess(self) THEN self
    ELSE [self EXCEPT !.tag = "Success", !.err = "", !.val = default]

or_val(self, default) ==
    IF IsFail(self) \/ IsReachedEOF(self)
    THEN [self EXCEPT !.tag = "Success", !.err = "", !.val = default]
    ELSE self

or_none(self) == or_val(map(self, Some), None)

\* result.rs:175-183
then_or_val(self, thn(_), default) ==
    IF IsSuccess(self)
    THEN or_val(After(self, thn(self.pos)), default)
    ELSE map(self, LAMBDA v : default)

\* result.rs:193-198
then_or_none(self, thn(_)) == then_or_val(self, thn, None)

\* result.rs:321-330
or(self, next(_)) ==
    IF IsFail(self) \/ IsReachedEOF(self)
    THEN After(self, next(self.pos))
    ELSE self

\* the break of the loop leaving the cursor where the last attempt stopped
then_multi_break_at_stop(acc, r) == [acc EXCEPT !.inv = r.inv, !.tk = r.tk, !.pos = r.pos]

\* `_ => break` in then_multi_combine: the values and the cursor so far are
\* kept, of the attempt r that did not succeed only the history
then_multi_break(acc, r) == [acc EXCEPT !.inv = r.inv, !.tk = r.tk]

\* the loop of then_multi_combine: acc is Success(vals, pos) so far, seen the
\* cursors at which thn was already called (thn is pure: a cursor met again
\* means the loop never ends)
\* result.rs:110-121
RECURSIVE then_multi_loop(_, _, _)
then_multi_loop(thn(_), acc, seen) ==
    LET r == After(acc, thn(acc.pos))
    IN  IF IsSuccess(r)
        THEN IF r.pos \in seen
             THEN After(r, Diverges)
             ELSE then_multi_loop(thn, [r EXCEPT !.val = Append(acc.val, r.val)],
                                  seen \cup {r.pos})
        ELSE IF r.tag = "Diverges"
             THEN r
             ELSE then_multi_break(acc, r)

\* result.rs:100-127
then_multi_combine(self, thn(_), combine(_, _)) ==
    IF IsSuccess(self)
    THEN LET vals == then_multi_loop(thn, [self EXCEPT !.val = <<>>], {self.pos})
         IN  IF IsSuccess(vals)
             THEN [vals EXCEPT !.val = combine(self.val, vals.val)]
             ELSE vals
    ELSE self

\* result.rs:128-133
then_multi_zip(self, thn(_)) == then_multi_combine(self, thn, LAMBDA f, v : <<f, v>>)

\* result.rs:296-307
validate(self, validation(_)) ==
    IF IsSuccess(self)
    THEN IF validation(self.val) THEN self
         ELSE [self EXCEPT !.tag = "Error", !.err = "FailedOnValidation", !.val = <<>>]
    ELSE self

\* struct Alt { init_pos, current }
or_from(self, pos) == [init_pos |-> pos, current |-> self]

\* result.rs:346-354
Alt_next(self, next(_)) ==
    [init_pos |-> self.init_pos, current |-> After(self.current, next(self.init_pos))]

\* Alt::or taking Fail alone for a failed alternative
Alt_failed_no_eof(self) == IsFail(self.current)

\* the arms Fail(_) and Error(ReachedEOF(_)) of the match of Alt::or
Alt_failed(self) == IsFail(self.current) \/ IsReachedEOF(self.current)

\* result.rs:356-368
Alt_or(self, next(_)) ==
    IF Alt_failed(self)
    THEN Alt_next(self, next)
    ELSE [init_pos |-> self.init_pos, current |-> self.current]

\* impl Into<ParseResult> for Alt
into(self) == self.current

\* Result<T, ParseError>: pos is the usize the ParseError carries
Ok(v) == [tag |-> "Ok", val |-> v, err |-> "", pos |-> 0]

Err(e, p) == [tag |-> "Err", val |-> <<>>, err |-> e, pos |-> p]

\* the conversion ending every failed parse as FinishedOnFail
into_result_all_finished(self) ==
    IF IsSuccess(self) THEN Ok(self.val) ELSE Err("FinishedOnFail", 0)

\* impl Into<Result<T, ParseError>> for ParseResult
into_result(self) ==
    IF IsSuccess(self) THEN Ok(self.val)
    ELSE IF IsFail(self) THEN Err("FinishedOnFail", 0)
    ELSE Err(self.err, self.pos)

\* ------------------------------------------------------------------------
\* lexer.rs and mod.rs: token access
\* ------------------------------------------------------------------------

\* CypherLexer::len
len == Len(tokens)

\* CypherLexer::token with the bound of the vector off by one
token_short(pos) ==
    IF pos + 1 < len
    THEN [Success(tokens[pos + 1], pos) EXCEPT !.tk = {pos}]
    ELSE [Error("ReachedEOF", pos) EXCEPT !.tk = {pos}]

\* CypherLexer::token / CypherParser::token: Ok((t, pos)) or Err(ReachedEOF(pos));
\* the token is the Success value, and the index is recorded in tk
token(pos) ==
    IF pos < len
    THEN [Success(tokens[pos + 1], pos) EXCEPT !.tk = {pos}]
    ELSE [Error("ReachedEOF", pos) EXCEPT !.tk = {pos}]

\* token!(obj => matcher => result, ...): m maps the token kinds matched to results
token_m(obj, m) ==
    IF IsSuccess(obj)
    THEN IF obj.val[1] \in DOMAIN m
         THEN [obj EXCEPT !.val = m[obj.val[1]], !.pos = obj.pos + 1]
         ELSE [obj EXCEPT !.tag = "Fail", !.val = <<>>]
    ELSE obj

\* token! stepping the cursor back instead of forward
token_v_back(obj, kinds) ==
    IF IsSuccess(obj)
    THEN IF obj.val[1] \in kinds
         THEN [obj EXCEPT !.val = obj.val[2], !.pos = obj.pos - 1]
         ELSE [obj EXCEPT !.tag = "Fail", !.val = <<>>]
    ELSE obj

\* token!(obj => Kind(v) => v, ...): the matched token's payload is the result
token_v(obj, kinds) ==
    IF IsSuccess(obj)
    THEN IF obj.val[1] \in kinds
         THEN [obj EXCEPT !.val = obj.val[2], !.pos = obj.pos + 1]
         ELSE [obj EXCEPT !.tag = "Fail", !.val = <<>>]
    ELSE obj

EmptyToken == <<"EmptyToken">>

\* token! stepping the cursor two tokens forward
token_e_skip(obj, kinds) ==
    IF IsSuccess(obj)
    THEN IF obj.val[1] \in kinds
         THEN [obj EXCEPT !.val = EmptyToken, !.pos = obj.pos + 2]
         ELSE [obj EXCEPT !.tag = "Fail", !.val = <<>>]
    ELSE obj

\* token!(obj => matcher, ...): the second form, whose result is EmptyToken
token_e(obj, kinds) ==
    IF IsSuccess(obj)
    THEN IF obj.val[1] \in kinds
         THEN [obj EXCEPT !.val = EmptyToken, !.pos = obj.pos + 1]
         ELSE [obj EXCEPT !.tag = "Fail", !.val = <<>>]
    ELSE obj

\* token!(self.token(p) => Token::K): the form most rules use
tok(p, k) == token_e(token(p), {k})

\* ------------------------------------------------------------------------
\* parser.rs: the repetition combinators and validate_eof
\* ------------------------------------------------------------------------

\* zero_or_more leaving the cursor where the failed attempt stopped
zero_or_more_no_reset(pos, r) ==
    IF IsFail(r) \/ IsReachedEOF(r)
    THEN [r EXCEPT !.tag = "Success", !.err = "", !.val = <<>>]
    ELSE r

\* the match of zero_or_more on the merged repetition r
zero_or_more_match(pos, r) ==
    IF IsFail(r) \/ IsReachedEOF(r)
    THEN [r EXCEPT !.tag = "Success", !.err = "", !.val = <<>>, !.pos = pos]
    ELSE r

\* parser.rs:36-45
zero_or_more(pos, thn(_)) ==
    zero_or_more_match(pos, merge(then_multi_zip(thn(pos), thn)))

\* one_or_more without the arm for the empty vector
one_or_more_any(pos, r) == r

\* the match of one_or_more on the result r of zero_or_more
one_or_more_match(pos, r) ==
    IF IsSuccess(r) /\ r.val = <<>>
    THEN [r EXCEPT !.tag = "Fail", !.val = <<>>, !.pos = pos]
    ELSE r

\* parser.rs:26-34
one_or_more(pos, thn(_)) == one_or_more_match(pos, zero_or_more(pos, thn))

\* validate_eof checking only that tokens are left
validate_eof_left(res) ==
    IF IsSuccess(res) /\ len > res.pos
    THEN [res EXCEPT !.tag = "Error", !.err = "UnreachedEOF", !.val = <<>>]
    ELSE res

validate_eof(res) ==
    IF IsSuccess(res) /\ len # res.pos
    THEN [res EXCEPT !.tag = "Error", !.err = "UnreachedEOF", !.val = <<>>]
    ELSE res

\* result.rs:184-192
then_or_default(self, thn(_), default) ==
    IF IsSuccess(self)
    THEN or_val(After(self, thn(self.pos)), default)
    ELSE map(self, LAMBDA v : default)

\* result.rs:73-78
then_or_default_zip(self, thn(_), default) == then_or_val_zip(self, thn, default)

\* or_last has no definition in the sources at hand; the specification
\* describes it as the alternation that threads the position of the failure
\* on to the next alternative (the anchored one is or_from ... or).
\* The cursor at which or_last starts the next alternative:
or_last_start(self) == self.pos

or_last(self, next(_)) ==
    IF IsFail(self) \/ IsReachedEOF(self)
    THEN After(self, next(or_last_start(self)))
    ELSE self

\* ------------------------------------------------------------------------
\* parser.rs: the grammar
\* ------------------------------------------------------------------------

\* self.rule(p), for a rule of CypherParser: the rules are pure functions of the
\* cursor, and table holds the result of every rule at every cursor it was
\* evaluated at; a rule is evaluated once the rules it calls have been
self(name, p) == table[<<name, p>>]


id(pos) == map(token_v(token(pos), {"Id"}), LAMBDA v : [value |-> v])

number(pos) == token_v(token(pos), {"Digit"})

null(pos) == token_m(token(pos), [Null |-> <<"Null">>])

bool(pos) == token_m(token(pos), [True |-> <<"Bool", TRUE>>, False |-> <<"Bool", FALSE>>])

char(pos) == map(token_v(token(pos), {"CharLit"}), LAMBDA v : <<"CharLit", v>>)

string(pos) == token_v(token(pos), {"StringLit", "TextBlock"})

number_expr(pos) == map(self("number", pos), LAMBDA n : <<"Number", n>>)

map_init(pos) ==
    LET one_pair(p) ==
            then_zip(take_left(then_zip(self("expression", p), LAMBDA q : tok(q, "Colon"))),
                     LAMBDA z : self("expression", z))
        all_pairs(p) ==
            or_val(merge(then_multi_zip(one_pair(p),
                                        LAMBDA q : then(tok(q, "Comma"), one_pair))),
                   <<>>)
    IN  map(take_left(then_zip(then(tok(pos, "LBrace"), all_pairs),
                               LAMBDA p : tok(p, "RBrace"))),
            LAMBDA v : <<"MapInit", v>>)

list_init(pos) ==
    take_left(then_zip(then_or_default(tok(pos, "LBrack"), LAMBDA z : self("enumeration", z), [values |-> <<>>]),
                       LAMBDA p : tok(p, "RBrack")))

elvis(pos) ==
    map(then_zip(take_left(then_zip(then(tok(pos, "Question"), LAMBDA z : self("expression", z)),
                                    LAMBDA p : tok(p, "Colon"))),
                 LAMBDA z : self("expression", z)),
        LAMBDA v : [lhs |-> v[1], rhs |-> v[2]])

expression(pos) ==
    LET not(p) == map(then(tok(p, "Bang"), LAMBDA z : self("expression", z)), LAMBDA e : <<"Not", e>>)
        wrapped(p) ==
            take_left(then_zip(then(tok(p, "LParen"), LAMBDA z : self("expression", z)),
                               LAMBDA q : tok(q, "RParen")))
        e_atom(p) == map(self("atom", p), LAMBDA a : <<"Atom", a>>)
        compound(p) ==
            LET atom_or_not == into(Alt_or(Alt_or(or_from(e_atom(p), p), not), wrapped))
            IN  map(then_zip(atom_or_not, LAMBDA z : self("compound_expr", z)),
                    LAMBDA v : <<"Compound", v[1], v[2]>>)
    IN  into(Alt_or(Alt_or(Alt_or(or_from(compound(pos), pos), not), wrapped), e_atom))

enumeration(pos) ==
    LET tail(p) == then(tok(p, "Comma"), LAMBDA z : self("expression", z))
    IN  map(merge(then_multi_zip(self("expression", pos), tail)), LAMBDA v : [values |-> v])

params(pos) ==
    map(merge(then_multi_zip(self("id", pos), LAMBDA p : then(tok(p, "Comma"), LAMBDA z : self("id", z)))),
        LAMBDA ids : [ids |-> ids])

assignment_null(pos) == map(then(tok(pos, "Var"), LAMBDA z : self("id", z)), LAMBDA i : [id |-> i])

\* CypherParser::assignment with `*=` and `-=` mapped to their own operators
assignment_straight(pos) ==
    LET a_op(p) ==
            token_m(token(p),
                    [Assign |-> "Assign", MultAssign |-> "Mul", AddAssign |-> "Add",
                     DivAssign |-> "Div", AndAssign |-> "And", OrAssign |-> "Or",
                     XOrAssign |-> "Xor", ModAssign |-> "Mod", LShift |-> "LShift",
                     RShift |-> "RShift", URShiftAssign |-> "URShift",
                     SubAssign |-> "Sub"])
        tail(p) ==
            into(Alt_or(or_from(map(self("expression", p), LAMBDA e : <<"Expression", e>>), p),
                        LAMBDA q : map(one_or_more(q, LAMBDA z : self("assignment", z)),
                                       LAMBDA v : IF Len(v) = 1
                                                  THEN <<"Assignment", v[1]>>
                                                  ELSE <<"Assignments", v>>)))
    IN  map(then_zip(then_zip(then_zip(or_val(token_m(token(pos), [Var |-> TRUE]), FALSE),
                                       LAMBDA z : self("expression", z)),
                              a_op),
                     tail),
            LAMBDA v : [var |-> v[1][1][1], op |-> v[1][2], lhs |-> v[1][1][2],
                        rhs |-> v[2]])

\* CypherParser::assignment
assignment(pos) ==
    LET a_op(p) ==
            token_m(token(p),
                    [Assign |-> "Assign", MultAssign |-> "Sub", AddAssign |-> "Add",
                     DivAssign |-> "Div", AndAssign |-> "And", OrAssign |-> "Or",
                     XOrAssign |-> "Xor", ModAssign |-> "Mod", LShift |-> "LShift",
                     RShift |-> "RShift", URShiftAssign |-> "URShift",
                     SubAssign |-> "Mul"])
        tail(p) ==
            into(Alt_or(or_from(map(self("expression", p), LAMBDA e : <<"Expression", e>>), p),
                        LAMBDA q : map(one_or_more(q, LAMBDA z : self("assignment", z)),
                                       LAMBDA v : IF Len(v) = 1
                                                  THEN <<"Assignment", v[1]>>
                                                  ELSE <<"Assignments", v>>)))
    IN  map(then_zip(then_zip(then_zip(or_val(token_m(token(pos), [Var |-> TRUE]), FALSE),
                                       LAMBDA z : self("expression", z)),
                              a_op),
                     tail),
            LAMBDA v : [var |-> v[1][1][1], op |-> v[1][2], lhs |-> v[1][1][2],
                        rhs |-> v[2]])

\* CypherParser::if_statement requiring at least one `else if` branch
if_statement_one_else_if(pos) ==
    LET main(p) ==
            map(then_zip(take_left(then_zip(then(then(tok(p, "If"),
                                                      LAMBDA q : tok(q, "LParen")),
                                                 LAMBDA z : self("expression", z)),
                                            LAMBDA q : tok(q, "RParen"))),
                         LAMBDA z : self("statement", z)),
                LAMBDA v : [cond |-> v[1], action |-> v[2]])
        else_ifs(p) == one_or_more(p, LAMBDA q : then(tok(q, "Else"), main))
        else_opt(p) == or_none(then(tok(p, "Else"), LAMBDA z : self("statement", z)))
    IN  map(then_or_none_zip(then_zip(main(pos), else_ifs), else_opt),
            LAMBDA v : [main |-> v[1][1], others |-> v[1][2], els |-> v[2]])

\* CypherParser::if_statement
if_statement(pos) ==
    LET main(p) ==
            map(then_zip(take_left(then_zip(then(then(tok(p, "If"),
                                                      LAMBDA q : tok(q, "LParen")),
                                                 LAMBDA z : self("expression", z)),
                                            LAMBDA q : tok(q, "RParen"))),
                         LAMBDA z : self("statement", z)),
                LAMBDA v : [cond |-> v[1], action |-> v[2]])
        else_ifs(p) == zero_or_more(p, LAMBDA q : then(tok(q, "Else"), main))
        else_opt(p) == or_none(then(tok(p, "Else"), LAMBDA z : self("statement", z)))
    IN  map(then_or_none_zip(then_zip(main(pos), else_ifs), else_opt),
            LAMBDA v : [main |-> v[1][1], others |-> v[1][2], els |-> v[2]])

block(pos) ==
    LET b_params(p) ==
            take_left(then_zip(then(tok(p, "BitOr"), LAMBDA z : self("params", z)), LAMBDA q : tok(q, "BitOr")))
    IN  take_left(then_zip(map(then_multi_zip(then_or_default(tok(pos, "LBrace"), b_params,
                                                              [ids |-> <<>>]),
                                              LAMBDA z : self("statement", z)),
                               LAMBDA v : [params |-> v[1], statements |-> v[2]]),
                           LAMBDA p : tok(p, "RBrace")))

call(pos) ==
    LET c_enumeration(p) ==
            map(take_left(then_zip(then_or_default(tok(p, "LParen"), LAMBDA z : self("enumeration", z),
                                                   [values |-> <<>>]),
                                   LAMBDA q : tok(q, "RParen"))),
                LAMBDA e : <<"Enum", e>>)
        block_or_enum(p) ==
            or_last(map(self("block", p), LAMBDA b : <<"Block", b>>), c_enumeration)
        tail(p) == or_none(then(tok(p, "Dot"), LAMBDA z : self("call", z)))
    IN  map(then_or_none_zip(then_or_val_zip(self("id", pos), block_or_enum, <<"None">>), tail),
            LAMBDA v : [id |-> v[1][1], tail |-> v[2], middle |-> v[1][2]])

just_id(i) == [id |-> [value |-> i], tail |-> None, middle |-> <<"None">>]

collection_elem(pos) ==
    map(then_zip(or_last(map(self("string", pos), just_id), LAMBDA z : self("call", z)), LAMBDA z : self("list_init", z)),
        LAMBDA v : <<"CollectionElem", v[1], v[2]>>)

import_variable(pos) ==
    LET alias(p) == then_or_none(tok(p, "As"), LAMBDA q : or_none(self("id", q)))
    IN  map(then_or_none_zip(self("id", pos), alias), LAMBDA v : [name |-> v[1], alias |-> v[2]])

import_module(pos) ==
    LET import_vars(p) ==
            merge(then_multi_zip(then(tok(p, "For"), LAMBDA z : self("import_variable", z)),
                                 LAMBDA q : then(tok(q, "Comma"), LAMBDA z : self("import_variable", z))))
    IN  map(then_or_val_zip(then(tok(pos, "Import"), LAMBDA z : self("string", z)), import_vars, <<>>),
            LAMBDA v : [name |-> v[1], variables |-> v[2]])

range(pos) ==
    LET range_expr(p) ==
            or_last(map(self("call", p), LAMBDA c : <<"Call", c>>),
                    LAMBDA q : map(self("number", q), LAMBDA n : <<"Num", n>>))
        ellipsis(p) == token_m(token(p), [EllipsisIn |-> FALSE, EllipsisOut |-> TRUE])
    IN  map(then_zip(then_zip(range_expr(pos), ellipsis), range_expr),
            LAMBDA v : [left |-> v[1][1], right |-> v[2], is_out |-> v[1][2]])

atom(pos) ==
    LET with_sub(p) == map(then(tok(p, "Sub"), LAMBDA z : self("atom", z)), LAMBDA a : <<"Sub", a>>)
    IN  into(Alt_or(Alt_or(Alt_or(Alt_or(Alt_or(Alt_or(Alt_or(Alt_or(Alt_or(Alt_or(
             Alt_or(Alt_or(Alt_or(
                or_from(self("bool", pos), pos),
                LAMBDA p : map(self("import_module", p), LAMBDA m : <<"ImportModule", m>>)),
                LAMBDA p : map(self("range", p), LAMBDA r : <<"Range", r>>)),
                LAMBDA z : self("char", z)),
                LAMBDA p : map(self("string", p), LAMBDA v : <<"StringLit", v>>)),
                LAMBDA p : map(self("number", p), LAMBDA n : <<"Number", n>>)),
                LAMBDA z : self("null", z)),
                LAMBDA p : map(self("list_init", p), LAMBDA l : <<"ListInit", l>>)),
                LAMBDA z : self("map_init", z)),
                LAMBDA z : self("collection_elem", z)),
                LAMBDA p : map(self("call", p), LAMBDA c : <<"Call", c>>)),
                LAMBDA p : token_m(token(p), [Break |-> <<"Break">>])),
                LAMBDA p : token_m(token(p), [Continue |-> <<"Continue">>])),
                with_sub))

function(pos) ==
    LET f_params(p) ==
            take_left(then_zip(then_or_default(tok(p, "LParen"), LAMBDA z : self("params", z), [ids |-> <<>>]),
                               LAMBDA q : tok(q, "RParen")))
    IN  map(then_or_none_zip(then_zip(self("id", pos), f_params), LAMBDA p : or_none(self("block", p))),
            LAMBDA v : [name |-> v[1][1], params |-> v[1][2], block |-> v[2]])

logic_atom(pos) ==
    map(then_zip(token_m(token(pos),
                         [Or |-> "Or", Gt |-> "Gt", Ge |-> "Ge", Equal |-> "Eq",
                          NotEqual |-> "NotEq", Lt |-> "Lt", Le |-> "Le", And |-> "And"]),
                 LAMBDA z : self("expression", z)),
        LAMBDA v : <<"Atom", v[1], v[2]>>)

compound_expr(pos) ==
    LET tail(p) == map(then(tok(p, "Dot"), LAMBDA z : self("call", z)), LAMBDA c : <<"Tail", c>>)
        is(p) == map(then(tok(p, "Is"), LAMBDA z : self("expression", z)), LAMBDA e : <<"Is", e>>)
        c_logic == map(self("logic", pos), LAMBDA l : <<"Logic", l>>)
        arithmetic(p) == map(self("arith", p), LAMBDA a : <<"Arith", a>>)
        c_elvis(p) == map(self("elvis", p), LAMBDA e : <<"Elvis", e>>)
    IN  into(Alt_or(Alt_or(Alt_or(Alt_or(or_from(c_logic, pos), arithmetic), c_elvis),
                           tail), is))

logic(pos) ==
    LET and(p) ==
            map(then_multi_zip(self("logic_atom", p),
                               LAMBDA q : then_zip(then(tok(q, "And"), LAMBDA z : self("expression", z)),
                                                   LAMBDA z : self("logic_atom", z))),
                LAMBDA v : IF Len(v[2]) = 0 THEN v[1] ELSE <<"And", v[1], v[2]>>)
    IN  map(then_multi_zip(and(pos),
                           LAMBDA p : then_zip(then(tok(p, "Or"), LAMBDA z : self("expression", z)), and)),
            LAMBDA v : IF Len(v[2]) = 0 THEN v[1] ELSE <<"Or", v[1], v[2]>>)

arith(pos) ==
    LET a_expression(p) == map(self("expression", p), LAMBDA e : <<"Expression", e>>)
        mul(p) ==
            map(then_zip(token_m(token(p), [Mult |-> "Mul", Div |-> "Div", Mod |-> "Mod"]),
                         LAMBDA z : self("expression", z)),
                LAMBDA v : <<"Mul", v[1], v[2]>>)
        add(p) ==
            map(then_zip(token_m(token(p), [Sub |-> FALSE, Add |-> TRUE]),
                         LAMBDA q : or_last(mul(q), a_expression)),
                LAMBDA v : <<"Add", v[1], v[2]>>)
        a_range(p) ==
            map(then_zip(token_m(token(p), [EllipsisIn |-> FALSE, EllipsisOut |-> TRUE]),
                         LAMBDA q : or_last(add(q), a_expression)),
                LAMBDA v : <<"Range", v[1], v[2]>>)
        shift(p) ==
            map(then_zip(token_m(token(p), [LShift |-> FALSE, RShift |-> TRUE]),
                         LAMBDA q : or_last(a_range(q), a_expression)),
                LAMBDA v : <<"Shift", v[1], v[2]>>)
        bit(p) ==
            map(then_zip(token_m(token(p), [BitOr |-> "Or", BitAnd |-> "And",
                                            Caret |-> "Xor"]),
                         LAMBDA q : or_last(shift(q), a_expression)),
                LAMBDA v : <<"Bit", v[1], v[2]>>)
    IN  or_last(or_last(or_last(or_last(mul(pos), add), a_range), shift), bit)

one_arg(pos) ==
    take_left(then_zip(then(tok(pos, "LParen"), LAMBDA z : self("id", z)), LAMBDA p : tok(p, "RParen")))

class_statement(pos) ==
    LET op_getter(p) ==
            map(then_or_none_zip(
                    or_last(token_m(token(p), [Sub |-> <<"Sub">>, Tilde |-> <<"Tilde">>,
                                               Bang |-> <<"Bang">>]),
                            LAMBDA q : map(self("id", q), LAMBDA i : <<"Id", i>>)),
                    LAMBDA q : or_none(self("block", q))),
                LAMBDA v : <<"OpGetter", v[1], v[2]>>)
        setter(p) ==
            map(then_zip(self("id", p),
                         LAMBDA q : then_zip(then(tok(q, "Assign"), LAMBDA z : self("one_arg", z)), LAMBDA z : self("block", z))),
                LAMBDA v : <<"Setter", v[1], v[2][1], v[2][2]>>)
        subscript_get(p) ==
            map(then_zip(take_left(then_zip(then(tok(p, "LParen"), LAMBDA z : self("enumeration", z)),
                                            LAMBDA q : tok(q, "RParen"))),
                         LAMBDA z : self("block", z)),
                LAMBDA v : <<"SubscriptGet", v[1], v[2]>>)
        subscript_set(p) ==
            map(then_zip(then_zip(take_left(then_zip(then(tok(p, "LParen"), LAMBDA z : self("enumeration", z)),
                                                     LAMBDA q : tok(q, "RParen"))),
                                  LAMBDA q : then(tok(q, "Assign"), LAMBDA z : self("one_arg", z))),
                         LAMBDA z : self("block", z)),
                LAMBDA v : <<"SubscriptSet", v[1][1], v[1][2], v[2]>>)
        op_setter(p) ==
            map(then_zip(then_zip(
                    token_m(token(p),
                            [Sub |-> "Sub", Mult |-> "Mul", Div |-> "Div", Mod |-> "Mod",
                             Add |-> "Add", EllipsisIn |-> "EllipsisIn",
                             EllipsisOut |-> "EllipsisOut", LShift |-> "LShift",
                             BitAnd |-> "BitAnd", Caret |-> "BitXor", BitOr |-> "BitOr",
                             Gt |-> "Gt", Lt |-> "Lt", Equal |-> "Eq", Le |-> "Le",
                             Ge |-> "Ge", NotEqual |-> "NotEq", Is |-> "Is"]),
                    LAMBDA z : self("one_arg", z)), LAMBDA z : self("block", z)),
                LAMBDA v : <<"OpSetter", v[1][1], v[1][2], v[2]>>)
        constructor(p) ==
            map(then_zip(then_zip(then(tok(p, "Construct"), LAMBDA z : self("id", z)), LAMBDA z : self("params", z)), LAMBDA z : self("block", z)),
                LAMBDA v : <<"Constructor", v[1][1], v[1][2], v[2]>>)
    IN  into(Alt_or(Alt_or(Alt_or(Alt_or(Alt_or(Alt_or(
                or_from(map(self("function", pos), LAMBDA f : <<"Fn", f>>), pos),
                op_getter), op_setter), setter), subscript_get), subscript_set),
                constructor))

attribute(pos) ==
    LET prefix(p) ==
            then_or_val(tok(p, "Hash"), LAMBDA q : token_m(token(q), [Bang |-> TRUE]), FALSE)
        attr_val(p) ==
            map(then_or_none_zip(self("id", p), LAMBDA q : or_none(then(tok(q, "Assign"), LAMBDA z : self("atom", z)))),
                LAMBDA v : [id |-> v[1], expr |-> v[2]])
        simple(p) == map(then_zip(prefix(p), attr_val), LAMBDA v : <<"Simple", v[1], v[2]>>)
        group(p) ==
            map(take_left(then_zip(
                    then_zip(then_zip(prefix(p), LAMBDA z : self("id", z)),
                             LAMBDA q : merge(then_multi_zip(
                                            then(tok(q, "LParen"), attr_val),
                                            LAMBDA r : then(tok(r, "Comma"), attr_val)))),
                    LAMBDA q : tok(q, "RParen"))),
                LAMBDA v : <<"Group", v[1][1], v[1][2], v[2]>>)
    IN  into(Alt_or(or_from(group(pos), pos), simple))

class_body(pos) ==
    LET foreign(p) == token_m(token(p), [Foreign |-> "Foreign"])
        static_t(p) == token_m(token(p), [Static |-> "Static"])
        tpe(p) ==
            into(Alt_or(Alt_or(Alt_or(
                or_from(map(then(foreign(p), static_t), LAMBDA r : "ForeignStatic"), p),
                LAMBDA q : map(then(static_t(q), foreign), LAMBDA r : "ForeignStatic")),
                static_t), foreign))
    IN  map(then_zip(then_or_default_zip(zero_or_more(pos, LAMBDA z : self("attribute", z)), tpe, "None"),
                     LAMBDA z : self("class_statement", z)),
            LAMBDA v : [attributes |-> v[1][1], tpe |-> v[1][2], statement |-> v[2]])

while_statement(pos) ==
    LET cond(p) ==
            into(Alt_or(or_from(map(self("expression", p), LAMBDA e : <<"Expression", e>>), p),
                        LAMBDA q : map(self("assignment", q), LAMBDA a : <<"Assignment", a>>)))
    IN  map(then_zip(take_left(then_zip(then(then(tok(pos, "While"),
                                                  LAMBDA p : tok(p, "LParen")),
                                             cond),
                                        LAMBDA p : tok(p, "RParen"))),
                     LAMBDA z : self("statement", z)),
            LAMBDA v : [cond |-> v[1], body |-> v[2]])

for_statement(pos) ==
    map(then_zip(take_left(then_zip(
            then_zip(take_left(then_zip(then(then(tok(pos, "For"),
                                                  LAMBDA p : tok(p, "LParen")),
                                             LAMBDA z : self("id", z)),
                                        LAMBDA p : tok(p, "In"))),
                     LAMBDA z : self("expression", z)),
            LAMBDA p : tok(p, "RParen"))),
            LAMBDA z : self("statement", z)),
        LAMBDA v : [elem |-> v[1][1], collection |-> v[1][2], body |-> v[2]])

class_def(pos) ==
    LET inherit(p) == then(tok(p, "Is"), LAMBDA z : self("id", z))
    IN  map(then_zip(take_left(then_zip(
                then_or_none_zip(
                    then_zip(take_left(then_zip(
                                 then_zip(zero_or_more(pos, LAMBDA z : self("attribute", z)),
                                          LAMBDA p : or_val(token_m(token(p),
                                                                    [Foreign |-> TRUE]),
                                                            FALSE)),
                                 LAMBDA p : tok(p, "Class"))),
                             LAMBDA z : self("id", z)),
                    LAMBDA p : or_none(inherit(p))),
                LAMBDA p : tok(p, "LBrace"))),
                LAMBDA p : zero_or_more(p, LAMBDA z : self("class_body", z))),
            LAMBDA v : [attributes |-> v[1][1][1][1], foreign |-> v[1][1][1][2],
                        name |-> v[1][1][2], inherit |-> v[1][2], elems |-> v[2]])

\* CypherParser::statement trying expression first and assignment fourth
statement_expression_first(pos) ==
    LET ret(p) == map(then(tok(p, "Return"), LAMBDA z : self("expression", z)), LAMBDA e : <<"Return", e>>)
    IN  into(Alt_or(Alt_or(Alt_or(Alt_or(Alt_or(Alt_or(Alt_or(
                or_from(map(self("expression", pos), LAMBDA e : <<"Expression", e>>), pos),
                LAMBDA p : map(self("assignment_null", p), LAMBDA a : <<"AssignmentNull", a>>)),
                LAMBDA p : map(self("block", p), LAMBDA b : <<"Block", b>>)),
                LAMBDA p : map(self("assignment", p), LAMBDA a : <<"Assignment", a>>)),
                LAMBDA p : map(self("if_statement", p), LAMBDA i : <<"If", i>>)),
                LAMBDA p : map(self("while_statement", p), LAMBDA w : <<"While", w>>)),
                LAMBDA p : map(self("for_statement", p), LAMBDA f : <<"For", f>>)),
                ret))

\* CypherParser::statement
statement(pos) ==
    LET ret(p) == map(then(tok(p, "Return"), LAMBDA z : self("expression", z)), LAMBDA e : <<"Return", e>>)
    IN  into(Alt_or(Alt_or(Alt_or(Alt_or(Alt_or(Alt_or(Alt_or(
                or_from(map(self("assignment", pos), LAMBDA a : <<"Assignment", a>>), pos),
                LAMBDA p : map(self("assignment_null", p), LAMBDA a : <<"AssignmentNull", a>>)),
                LAMBDA p : map(self("block", p), LAMBDA b : <<"Block", b>>)),
                LAMBDA p : map(self("expression", p), LAMBDA e : <<"Expression", e>>)),
                LAMBDA p : map(self("if_statement", p), LAMBDA i : <<"If", i>>)),
                LAMBDA p : map(self("while_statement", p), LAMBDA w : <<"While", w>>)),
                LAMBDA p : map(self("for_statement", p), LAMBDA f : <<"For", f>>)),
                ret))

\* CypherParser::file_unit taking the empty block for a unit when no alternative matches
file_unit_or_empty(pos) ==
    or_val(
        into(Alt_or(Alt_or(Alt_or(Alt_or(
            or_from(map(self("class_def", pos), LAMBDA c : <<"Class", c>>), pos),
            LAMBDA p : map(self("function", p), LAMBDA f : <<"Fn", f>>)),
            LAMBDA p : map(self("import_module", p), LAMBDA i : <<"Import", i>>)),
            LAMBDA p : map(self("statement", p), LAMBDA s : <<"Statement", s>>)),
            LAMBDA p : map(self("block", p), LAMBDA b : <<"Block", b>>))),
        <<"Block", [params |-> [ids |-> <<>>], statements |-> <<>>]>>)

\* CypherParser::file_unit trying block before statement
file_unit_block_first(pos) ==
    into(Alt_or(Alt_or(Alt_or(Alt_or(
        or_from(map(self("class_def", pos), LAMBDA c : <<"Class", c>>), pos),
        LAMBDA p : map(self("function", p), LAMBDA f : <<"Fn", f>>)),
        LAMBDA p : map(self("import_module", p), LAMBDA i : <<"Import", i>>)),
        LAMBDA p : map(self("block", p), LAMBDA b : <<"Block", b>>)),
        LAMBDA p : map(self("statement", p), LAMBDA s : <<"Statement", s>>)))

\* CypherParser::file_unit
file_unit(pos) ==
    into(Alt_or(Alt_or(Alt_or(Alt_or(
        or_from(map(self("class_def", pos), LAMBDA c : <<"Class", c>>), pos),
        LAMBDA p : map(self("function", p), LAMBDA f : <<"Fn", f>>)),
        LAMBDA p : map(self("import_module", p), LAMBDA i : <<"Import", i>>)),
        LAMBDA p : map(self("statement", p), LAMBDA s : <<"Statement", s>>)),
        LAMBDA p : map(self("block", p), LAMBDA b : <<"Block", b>>)))

\* CypherParser::script passing its result through validate_eof
script_validated(pos) ==
    validate_eof(map(one_or_more(pos, LAMBDA z : self("file_unit", z)), LAMBDA units : [units |-> units]))

\* CypherParser::script
script(pos) == map(one_or_more(pos, LAMBDA z : self("file_unit", z)), LAMBDA units : [units |-> units])

\* ------------------------------------------------------------------------
\* The parser as a state machine: a token vector, and grammar rules applied
\* to it from any cursor
\* ------------------------------------------------------------------------

MaxLen == 3

\* the tokens of the checked vectors: (kind) or (kind, lexeme)
Alphabet == { <<"Id", "a">>, <<"LBrace">>, <<"RBrace">>, <<"Sub">>, <<"Assign">> }

RECURSIVE Vectors(_)
Vectors(n) ==
    IF n = 0 THEN {<<>>}
    ELSE LET shorter == Vectors(n - 1)
         IN  shorter \cup {Append(v, t) : v \in {w \in shorter : Len(w) = n - 1},
                                          t \in Alphabet}

\* the order in which the rules are evaluated at one cursor: a rule comes after
\* the rules it calls at the same cursor
Order ==
    << "id", "number", "null", "bool", "char", "string", "number_expr", "params",
       "one_arg", "assignment_null", "import_variable", "import_module", "block",
       "call", "function", "range", "list_init", "map_init", "collection_elem",
       "atom", "elvis", "logic_atom", "logic", "arith", "compound_expr",
       "expression", "enumeration", "assignment", "if_statement", "while_statement",
       "for_statement", "statement", "attribute", "class_statement", "class_body",
       "class_def", "file_unit", "script" >>

Index(name) == CHOOSE i \in 1..Len(Order) : Order[i] = name

\* the rule and cursor to evaluate next: cursors from len + 1 down to 0
Up ==
    IF op = "new" THEN [name |-> Order[1], pos |-> len + 1]
    ELSE IF Index(op) < Len(Order) THEN [name |-> Order[Index(op) + 1], pos |-> arg]
    ELSE [name |-> Order[1], pos |-> arg - 1]

\* CypherParser::new on a source the lexer accepts: the parser holds the tokens
Init ==
    /\ tokens \in Vectors(MaxLen)
    /\ table = <<>>
    /\ op = "new"
    /\ arg = 0
    /\ out = Fail(0)

\* rule(pos) is called on the parser
Run(name, rule(_)) ==
    /\ Up.name = name
    /\ Up.pos >= 0
    /\ op' = name
    /\ arg' = Up.pos
    /\ out' = rule(Up.pos)
    /\ table' = (<<name, Up.pos>> :> out') @@ table
    /\ UNCHANGED tokens

Next ==
    \/ Run("id", id)
    \/ Run("number", number)
    \/ Run("null", null)
    \/ Run("bool", bool)
    \/ Run("char", char)
    \/ Run("string", string)
    \/ Run("number_expr", number_expr)
    \/ Run("map_init", map_init)
    \/ Run("list_init", list_init)
    \/ Run("elvis", elvis)
    \/ Run("expression", expression)
    \/ Run("enumeration", enumeration)
    \/ Run("statement", statement)
    \/ Run("file_unit", file_unit)
    \/ Run("script", script)
    \/ Run("assignment", assignment)
    \/ Run("assignment_null", assignment_null)
    \/ Run("if_statement", if_statement)
    \/ Run("block", block)
    \/ Run("params", params)
    \/ Run("call", call)
    \/ Run("collection_elem", collection_elem)
    \/ Run("import_variable", import_variable)
    \/ Run("import_module", import_module)
    \/ Run("range", range)
    \/ Run("atom", atom)
    \/ Run("function", function)
    \/ Run("logic_atom", logic_atom)
    \/ Run("compound_expr", compound_expr)
    \/ Run("logic", logic)
    \/ Run("arith", arith)
    \/ Run("class_statement", class_statement)
    \/ Run("class_body", class_body)
    \/ Run("attribute", attribute)
    \/ Run("one_arg", one_arg)
    \/ Run("while_statement", while_statement)
    \/ Run("for_statement", for_statement)
    \/ Run("class_def", class_def)

Spec == Init /\ [][Next]_vars

\* ------------------------------------------------------------------------
\* Properties of the grammar (Spec): op is the rule last run, arg the cursor
\* it was started at, out its result
\* ------------------------------------------------------------------------

\* the rule was started at a cursor of the input, 0 <= arg <= len
Started == op # "new" /\ arg <= len

\* C3 (as the specification states it): script(0) is a Success only when its
\* cursor is the token count.
C3_ScriptConsumesAll ==
    op = "script" /\ arg = 0 /\ IsSuccess(out) => out.pos = len

\* C6: the cursor p of the Success(v, p) of a rule started at a cursor of the
\* input satisfies 0 <= p <= len.
C6_CursorWithinInput ==
    Started /\ IsSuccess(out) => out.pos \in 0..len

\* C6 witness: a statement started before the last token succeeds at the token
\* count.
C6_Witness ==
    /\ op = "statement"
    /\ arg + 1 < len
    /\ IsSuccess(out)
    /\ out.pos = len

\* C7: a rule started at pos returns a Success cursor p >= pos, and reads no
\* token before pos: every sub-rule reads the token at its own start first,
\* so no sub-rule is started before pos.
C7_CursorNeverBack ==
    Started =>
        /\ IsSuccess(out) => out.pos >= arg
        /\ \A q \in out.tk : q >= arg

\* C7 witness: a rule started after the first token reads several tokens and
\* succeeds further on.
C7_Witness ==
    /\ Started
    /\ arg > 0
    /\ IsSuccess(out)
    /\ out.pos > arg
    /\ Cardinality(out.tk) >= 2

\* C8: no index beyond the token count is handed to the lexer, so every
\* ReachedEOF(p) produced, returned or absorbed, has p = len; one that is
\* returned carries len.
C8_ReachedEOFAtTokenCount ==
    Started =>
        /\ \A q \in out.tk : q <= len
        /\ IsReachedEOF(out) => out.pos = len

\* C8 witness: a rule matches tokens, runs out of input and returns
\* ReachedEOF(len).
C8_Witness ==
    /\ Started
    /\ arg < len
    /\ IsReachedEOF(out)
    /\ out.pos = len
    /\ arg \in out.tk

\* C10 (as the specification states it): when every alternative of an anchored
\* alternation fails, the Fail carries the anchor.
C10_FailCarriesAnchor ==
    /\ op \in {"statement", "expression", "atom", "file_unit", "class_statement"}
    /\ arg <= len
    /\ IsFail(out)
    => out.pos = arg

\* ------------------------------------------------------------------------
\* lexer.rs: the lexer. A source text is the sequence of its characters.
\* ------------------------------------------------------------------------

\* subpattern letter
Letters ==
    {"a", "b", "c", "d", "e", "f", "g", "h", "i", "j", "k", "l", "m", "n",
     "o", "p", "q", "r", "s", "t", "u", "v", "w", "x", "y", "z", "A", "B",
     "C", "D", "E", "F", "G", "H", "I", "J", "K", "L", "M", "N", "O", "P",
     "Q", "R", "S", "T", "U", "V", "W", "X", "Y", "Z", "_"}

\* the characters of subpattern digit, without the underscore
Digits == {"0", "1", "2", "3", "4", "5", "6", "7", "8", "9"}

\* the characters of Token::Whitespace
Spaces == {" ", "\t", "\r", "\n", "\f"}

\* the #[token(...)] variants of Token, in the order of the enum
Literals ==
    << <<"As", <<"A", "S">>>>,
       <<"Break", <<"b", "r", "e", "a", "k">>>>,
       <<"Class", <<"c", "l", "a", "s", "s">>>>,
       <<"Construct", <<"c", "o", "n", "s", "t", "r", "u", "c", "t">>>>,
       <<"Continue", <<"c", "o", "n", "t", "i", "n", "u", "e">>>>,
       <<"Else", <<"e", "l", "s", "e">>>>,
       <<"False", <<"f", "a", "l", "s", "e">>>>,
       <<"True", <<"t", "r", "u", "e">>>>,
       <<"For", <<"f", "o", "r">>>>,
       <<"Foreign", <<"f", "o", "r", "e", "i", "g", "n">>>>,
       <<"If", <<"i", "f">>>>,
       <<"Import", <<"i", "m", "p", "o", "r", "t">>>>,
       <<"In", <<"i", "n">>>>,
       <<"Is", <<"i", "s">>>>,
       <<"Null", <<"n", "u", "l", "l">>>>,
       <<"Return", <<"r", "e", "t", "u", "r", "n">>>>,
       <<"Static", <<"s", "t", "a", "t", "i", "c">>>>,
       <<"Var", <<"v", "a", "r">>>>,
       <<"While", <<"w", "h", "i", "l", "e">>>>,
       <<"LParen", <<"(">>>>,
       <<"RParen", <<")">>>>,
       <<"LBrace", <<"{">>>>,
       <<"RBrace", <<"}">>>>,
       <<"LBrack", <<"[">>>>,
       <<"RBrack", <<"]">>>>,
       <<"Colon", <<":">>>>,
       <<"Semi", <<";">>>>,
       <<"Comma", <<",">>>>,
       <<"Dot", <<".">>>>,
       <<"Equal", <<"=", "=">>>>,
       <<"NotEqual", <<"!", "=">>>>,
       <<"And", <<"&", "&">>>>,
       <<"Or", <<"|", "|">>>>,
       <<"Inc", <<"+", "+">>>>,
       <<"Dec", <<"-", "-">>>>,
       <<"Add", <<"+">>>>,
       <<"Sub", <<"-">>>>,
       <<"Mult", <<"*">>>>,
       <<"Div", <<"/">>>>,
       <<"BitAnd", <<"&">>>>,
       <<"BitOr", <<"|">>>>,
       <<"Question", <<"?">>>>,
       <<"Hash", <<"#">>>>,
       <<"Gt", <<">">>>>,
       <<"Ge", <<">", "=">>>>,
       <<"Lt", <<"<">>>>,
       <<"Le", <<"<", "=">>>>,
       <<"Tilde", <<"~">>>>,
       <<"Caret", <<"^">>>>,
       <<"Assign", <<"=">>>>,
       <<"AddAssign", <<"+", "=">>>>,
       <<"SubAssign", <<"-", "=">>>>,
       <<"MultAssign", <<"*", "=">>>>,
       <<"AndAssign", <<"&", "=">>>>,
       <<"OrAssign", <<"|", "=">>>>,
       <<"XOrAssign", <<"^", "=">>>>,
       <<"ModAssign", <<"%", "=">>>>,
       <<"DivAssign", <<"/", "=">>>>,
       <<"Mod", <<"%">>>>,
       <<"EllipsisIn", <<".", ".">>>>,
       <<"EllipsisOut", <<".", ".", ".">>>>,
       <<"RShift", <<">", ">">>>>,
       <<"LShift", <<"<", "<">>>>,
       <<"RShiftAssign", <<">", ">", "=">>>>,
       <<"LShiftAssign", <<"<", "<", "=">>>>,
       <<"URShiftAssign", <<">", ">", ">", "=">>>> >>

\* the literal lit is at index i of src
Matches(src, i, lit) ==
    /\ i + Len(lit) - 1 <= Len(src)
    /\ \A k \in 1..Len(lit) : src[i + k - 1] = lit[k]

\* the length of the longest run of characters of set that starts at i
RECURSIVE RunLen(_, _, _)
RunLen(src, i, set) ==
    IF i <= Len(src) /\ src[i] \in set THEN 1 + RunLen(src, i + 1, set) ELSE 0

\* the index in Literals of the longest literal at i (0: none)
LiteralAt(src, i) ==
    LET hits == {n \in 1..Len(Literals) : Matches(src, i, Literals[n][2])}
    IN  IF hits = {} THEN 0
        ELSE CHOOSE n \in hits : \A m \in hits : Len(Literals[m][2]) <= Len(Literals[n][2])

\* Token::Id: (?&letter)((?&letter)|(?&digit))*
IdLen(src, i) ==
    IF i <= Len(src) /\ src[i] \in Letters
    THEN 1 + RunLen(src, i + 1, Letters \cup Digits)
    ELSE 0

\* subpattern digit at i: [0-9]([0-9_]*[0-9])?
DigitsLen(src, i) ==
    IF i <= Len(src) /\ src[i] \in Digits
    THEN LET n == RunLen(src, i, Digits \cup {"_"})
         IN  CHOOSE k \in 1..n :
                 /\ src[i + k - 1] \in Digits
                 /\ \A j \in (k + 1)..n : src[i + j - 1] \notin Digits
    ELSE 0

\* Token::Digit, its first form: -?(?&digit)
NumberLen(src, i) ==
    IF i <= Len(src) /\ src[i] = "-"
    THEN IF DigitsLen(src, i + 1) > 0 THEN 1 + DigitsLen(src, i + 1) ELSE 0
    ELSE DigitsLen(src, i)

\* subpattern exp at i: [eE][+-]?[0-9]+
ExpLen(src, i) ==
    IF i <= Len(src) /\ src[i] \in {"e", "E"}
    THEN LET sg == IF i + 1 <= Len(src) /\ src[i + 1] \in {"+", "-"} THEN 1 ELSE 0
             n == RunLen(src, i + 1 + sg, Digits)
         IN  IF n > 0 THEN 1 + sg + n ELSE 0
    ELSE 0

\* the length of an optional `-` at i
SignLen(src, i) == IF i <= Len(src) /\ src[i] = "-" THEN 1 ELSE 0

\* Token::Digit, its second form: -?(?&digit)(?&exp)
FloatExpLen(src, i) ==
    LET exp(sg, d, e) == IF d > 0 /\ e > 0 THEN sg + d + e ELSE 0
        digit(sg, d) == exp(sg, d, ExpLen(src, i + sg + d))
        sign(sg) == digit(sg, DigitsLen(src, i + sg))
    IN  sign(SignLen(src, i))

\* Token::Digit, its third form: -?(?&digit)?\.(?&digit)(?&exp)?[fFdD]?
FloatDotLen(src, i) ==
    LET suffix(dot, n) ==
            IF dot + n <= Len(src) /\ src[dot + n] \in {"f", "F", "d", "D"} THEN n + 1 ELSE n
        exp(dot, f, e) ==
            IF dot <= Len(src) /\ src[dot] = "." /\ f > 0
            THEN dot - i + suffix(dot, 1 + f + e)
            ELSE 0
        fraction(dot, f) == exp(dot, f, ExpLen(src, dot + 1 + f))
        point(dot) == fraction(dot, DigitsLen(src, dot + 1))
        digit(sg, d) == point(i + sg + d)
        sign(sg) == digit(sg, DigitsLen(src, i + sg))
    IN  sign(SignLen(src, i))

\* Token::Digit, its fourth form: 0[bB][01][01]*
BinaryLen(src, i) ==
    LET bits(n) ==
            IF i + 1 <= Len(src) /\ src[i] = "0" /\ src[i + 1] \in {"b", "B"} /\ n > 0
            THEN 2 + n
            ELSE 0
    IN  bits(RunLen(src, i + 2, {"0", "1"}))

\* [0-9a-f]
HexDigits == Digits \cup {"a", "b", "c", "d", "e", "f"}

\* Token::Digit, its fifth form: -?0x[0-9a-f](([0-9a-f]|[_])*[0-9a-f])?
HexLen(src, i) ==
    LET run(j, n) ==
            IF j + 2 <= Len(src) /\ src[j] = "0" /\ src[j + 1] = "x" /\ src[j + 2] \in HexDigits
            THEN j - i + 2 + (CHOOSE k \in 1..n :
                                  /\ src[j + 1 + k] \in HexDigits
                                  /\ \A m \in (k + 1)..n : src[j + 1 + m] \notin HexDigits)
            ELSE 0
        sign(j) == run(j, RunLen(src, j + 2, HexDigits \cup {"_"}))
    IN  sign(i + SignLen(src, i))

\* the digits of a character that is one
DigitValue(c) ==
    CASE c = "0" -> 0 [] c = "1" -> 1 [] c = "2" -> 2 [] c = "3" -> 3 [] c = "4" -> 4
      [] c = "5" -> 5 [] c = "6" -> 6 [] c = "7" -> 7 [] c = "8" -> 8 [] c = "9" -> 9
      [] c = "a" -> 10 [] c = "b" -> 11 [] c = "c" -> 12 [] c = "d" -> 13
      [] c = "e" -> 14 [] c = "f" -> 15

\* a number as its digits without the leading zeros (an integer of any width)
RECURSIVE StripZeros(_)
StripZeros(ds) == IF Len(ds) > 1 /\ ds[1] = "0" THEN StripZeros(Tail(ds)) ELSE ds

\* the number of the digits a exceeds the one of the digits b (both stripped)
Exceeds(a, b) ==
    \/ Len(a) > Len(b)
    \/ /\ Len(a) = Len(b)
       /\ \E k \in 1..Len(a) :
              /\ DigitValue(a[k]) > DigitValue(b[k])
              /\ \A j \in 1..(k - 1) : a[j] = b[j]

\* a callback's Err(..): logos yields Token::Error
NumErr == <<"Error">>

\* i64::from_str_radix(text, radix) for radix 10 and 16 (lowercase digits): an
\* optional sign and digits of the radix, within i64::MIN..i64::MAX (minAbs,
\* max); the value is kept as
\* the sign and the stripped digits
from_str_radix(text, digits, max, minAbs) ==
    LET value(neg, ds, c) ==
            IF ds = <<>> \/ \E k \in 1..Len(ds) : ds[k] \notin digits THEN NumErr
            ELSE IF Exceeds(c, IF neg THEN minAbs ELSE max) THEN NumErr
            ELSE <<neg /\ c # <<"0">>, c>>
        sign(sg) ==
            value(sg = 1 /\ text[1] = "-", SubSeq(text, sg + 1, Len(text)),
                  StripZeros(SubSeq(text, sg + 1, Len(text))))
    IN  sign(IF text # <<>> /\ text[1] \in {"-", "+"} THEN 1 ELSE 0)

\* fn number: lex.slice().parse::<i64>()
number_cb(slice) ==
    LET max == <<"9", "2", "2", "3", "3", "7", "2", "0", "3", "6", "8", "5", "4", "7",
                 "7", "5", "8", "0", "7">>
        minAbs == [max EXCEPT ![19] = "8"]
        parsed(r) == IF r = NumErr THEN NumErr ELSE <<"Digit", <<"Int", r[1], r[2]>>>>
    IN  parsed(from_str_radix(slice, Digits, max, minAbs))

\* fn float: lex.slice().parse::<f64>(): a decimal with an optional sign, point
\* and exponent, digits on one side of the point at least; no `_`, no suffix.
\* The f64 is kept as the text that denotes it.
float_cb(slice) ==
    LET exp(digits, n, e) ==
            IF digits > 0 /\ n + e = Len(slice) THEN <<"Digit", <<"Float", slice>>>> ELSE NumErr
        fraction(int, n, frac) == exp(int + frac, n + frac, ExpLen(slice, n + frac + 1))
        point(int, n, dot) ==
            fraction(int, n + dot, IF dot = 1 THEN RunLen(slice, n + 2, Digits) ELSE 0)
        integer(sg, int) ==
            point(int, sg + int,
                  IF sg + int + 1 <= Len(slice) /\ slice[sg + int + 1] = "." THEN 1 ELSE 0)
        sign(sg) == integer(sg, RunLen(slice, sg + 1, Digits))
    IN  sign(IF slice[1] \in {"-", "+"} THEN 1 ELSE 0)

\* fn binary: isize::from_str_radix(&lex.slice()[2..], 2), isize being 64 bits wide
binary_cb(slice) ==
    LET parsed(c) == IF Len(c) > 63 THEN NumErr ELSE <<"Digit", <<"Binary", c>>>>
    IN  parsed(StripZeros(SubSeq(slice, 3, Len(slice))))

\* str::trim_start_matches("0x"): the prefix is removed as often as it is there
RECURSIVE trim_start_0x(_)
trim_start_0x(text) ==
    IF Len(text) >= 2 /\ text[1] = "0" /\ text[2] = "x"
    THEN trim_start_0x(SubSeq(text, 3, Len(text)))
    ELSE text

\* fn hex: i64::from_str_radix(lex.slice().trim_start_matches("0x"), 16)
hex_cb(slice) ==
    LET max == <<"7", "f", "f", "f", "f", "f", "f", "f", "f", "f", "f", "f", "f", "f",
                 "f", "f">>
        minAbs == <<"8", "0", "0", "0", "0", "0", "0", "0", "0", "0", "0", "0", "0",
                    "0", "0", "0">>
        parsed(r) == IF r = NumErr THEN NumErr ELSE <<"Digit", <<"Hex", r[1], r[2]>>>>
    IN  parsed(from_str_radix(trim_start_0x(slice), HexDigits, max, minAbs))

\* the longest match of the five forms of Token::Digit at i (0: none)
DigitLen(src, i) ==
    LET longest(ls) == CHOOSE n \in ls : \A m \in ls : m <= n
    IN  longest({NumberLen(src, i), FloatExpLen(src, i), FloatDotLen(src, i),
                 BinaryLen(src, i), HexLen(src, i)})

\* the token of the form of Token::Digit that matches the slice, through its
\* callback
DigitToken(src, i) ==
    LET callback(n, slice) ==
            IF n = NumberLen(src, i) THEN number_cb(slice)
            ELSE IF n = FloatExpLen(src, i) \/ n = FloatDotLen(src, i) THEN float_cb(slice)
            ELSE IF n = BinaryLen(src, i) THEN binary_cb(slice)
            ELSE hex_cb(slice)
        matched(n) == callback(n, SubSeq(src, i, i + n - 1))
    IN  matched(DigitLen(src, i))

\* the length of the body and closing quote of a StringLit from i (0: no end)
RECURSIVE StringRest(_, _)
StringRest(src, i) ==
    IF i > Len(src) THEN 0
    ELSE IF src[i] = "\"" THEN 1
    ELSE IF src[i] = "\\"
         THEN IF i + 1 <= Len(src) /\ src[i + 1] \in {"t", "u", "n", "\""}
              THEN LET n == StringRest(src, i + 2) IN IF n = 0 THEN 0 ELSE n + 2
              ELSE 0
         ELSE LET n == StringRest(src, i + 1) IN IF n = 0 THEN 0 ELSE n + 1

\* Token::StringLit
StringLen(src, i) ==
    IF i <= Len(src) /\ src[i] = "\"" /\ StringRest(src, i + 1) > 0
    THEN 1 + StringRest(src, i + 1)
    ELSE 0

\* the token logos yields at i and its length: the longest match, a literal
\* before a pattern of the same length; Token::Error when nothing matches
NextToken(src, i) ==
    LET slice(n) == SubSeq(src, i, i + n - 1)
        longest(l, ll, il, nl, sl) ==
            IF ll > 0 /\ ll >= il /\ ll >= nl /\ ll >= sl
            THEN [tok |-> <<Literals[l][1]>>, n |-> ll]
            ELSE IF il > 0 /\ il >= nl /\ il >= sl THEN [tok |-> <<"Id", slice(il)>>, n |-> il]
            ELSE IF nl > 0 /\ nl >= sl THEN [tok |-> DigitToken(src, i), n |-> nl]
            ELSE IF sl > 0 THEN [tok |-> <<"StringLit", slice(sl)>>, n |-> sl]
            ELSE [tok |-> <<"Error">>, n |-> 1]
        literal(l) ==
            longest(l, IF l = 0 THEN 0 ELSE Len(Literals[l][2]),
                    IdLen(src, i), DigitLen(src, i), StringLen(src, i))
    IN  literal(LiteralAt(src, i))

\* the tokens of src from i on, up to the first Token::Error
RECURSIVE LexFrom(_, _)
LexFrom(src, i) ==
    IF i > Len(src) THEN <<>>
    ELSE IF src[i] \in Spaces THEN LexFrom(src, i + RunLen(src, i, Spaces))
    ELSE LET push(t) == IF t.tok = <<"Error">> THEN <<t.tok>>
                        ELSE <<t.tok>> \o LexFrom(src, i + t.n)
         IN  push(NextToken(src, i))

\* CypherLexer::new: Ok with the token vector ts, or Err(BadToken)
Lexed(ts) ==
    IF ts # <<>> /\ ts[Len(ts)] = <<"Error">>
    THEN [ok |-> FALSE, tokens |-> <<>>]
    ELSE [ok |-> TRUE, tokens |-> ts]

\* CypherLexer::new on a source of one line
Lex(src) == Lexed(LexFrom(src, 1))

\* the tokens of the lines from the n-th on, up to the first Token::Error
RECURSIVE LexFromLine(_, _)
LexFromLine(lines, n) ==
    IF n > Len(lines) THEN <<>>
    ELSE LET line(ts) == IF ts # <<>> /\ ts[Len(ts)] = <<"Error">> THEN ts
                         ELSE ts \o LexFromLine(lines, n + 1)
         IN  line(LexFrom(lines[n], 1))

\* CypherLexer::new on a source of several lines: a line break is whitespace
\* and none of the tokens above holds one, so the lines are lexed in turn
LexLines(lines) == Lexed(LexFromLine(lines, 1))

\* ------------------------------------------------------------------------
\* Source texts: the parser is built by CypherParser::new on each of them
\* ------------------------------------------------------------------------

\* `class a { }`: a class with an empty body
Src_class_empty ==
    << "c", "l", "a", "s", "s", " ", "a", " ", "{", " ", "}" >>

\* `class a { } b`: a class followed by another unit
Src_class_then_unit ==
    << "c", "l", "a", "s", "s", " ", "a", " ", "{", " ", "}", " ", "b" >>

\* `{ | }`: a block whose parameter part is opened and empty
Src_block_pipe ==
    << "{", " ", "|", " ", "}" >>

\* `{ | | }`: a block with two pipes and no parameter
Src_block_pipes ==
    << "{", " ", "|", " ", "|", " ", "}" >>

\* `{ | a }`: a block whose parameter part is not closed
Src_block_open_param ==
    << "{", " ", "|", " ", "a", " ", "}" >>

\* `{|| >> >>}`: units.rs block_test: fail_on(.., 1)
Src_block_or ==
    << "{", "|", "|", " ", ">", ">", " ", ">", ">", "}" >>

\* `{|a| >> >>}`: units.rs block_test: expect_pos(.., 7)
Src_block_param ==
    << "{", "|", "a", "|", " ", ">", ">", " ", ">", ">", "}" >>

\* `{>> >>}`: units.rs block_test: expect_pos(.., 4)
Src_block_shifts ==
    << "{", ">", ">", " ", ">", ">", "}" >>

\* `{}`: units.rs block_test: expect_pos(.., 2)
Src_block_empty ==
    << "{", "}" >>

\* `a = (b) { }`: a setter
Src_setter ==
    << "a", " ", "=", " ", "(", "b", ")", " ", "{", " ", "}" >>

\* `construct new(a, b) { }`: a constructor with two parameters
Src_constructor ==
    << "c", "o", "n", "s", "t", "r", "u", "c", "t", " ", "n", "e", "w", "(",
       "a", ",", " ", "b", ")", " ", "{", " ", "}" >>

\* `construct new a, b { }`: a constructor whose parameters are not parenthesised
Src_constructor_bare ==
    << "c", "o", "n", "s", "t", "r", "u", "c", "t", " ", "n", "e", "w", " ",
       "a", ",", " ", "b", " ", "{", " ", "}" >>

\* units.rs class_statement_test: expect_pos(.., 53); the text line by line
Src_constructor_test ==
    <<   << "c", "o", "n", "s", "t", "r", "u", "c", "t", " ", "n", "e", "w",
            "(", "i", "t", "e", "m", ",", " ", "d", "e", "p", "t", "h", ")",
            " ", "{" >>,
         << "_", "i", "t", "e", "m", " ", "=", " ", "i", "t", "e", "m" >>,
         << "i", "f", " ", "(", "d", "e", "p", "t", "h", " ", ">", " ", "0",
            ")", " ", "{" >>,
         << "v", "a", "r", " ", "i", "t", "e", "m", "2", " ", "=", " ", "i",
            "t", "e", "m", " ", "+", " ", "i", "t", "e", "m" >>,
         << "d", "e", "p", "t", "h", " ", "=", " ", "d", "e", "p", "t", "h",
            " ", "-", " ", "1" >>,
         << "_", "l", "e", "f", "t", " ", "=", " ", "T", "r", "e", "e", ".",
            "n", "e", "w", "(", "i", "t", "e", "m", "2", " ", "-", " ", "1",
            ",", " ", "d", "e", "p", "t", "h", ")" >>,
         << "_", "r", "i", "g", "h", "t", " ", "=", " ", "T", "r", "e", "e",
            ".", "n", "e", "w", "(", "i", "t", "e", "m", "2", ",", " ", "d",
            "e", "p", "t", "h", ")" >>,
         << "}" >>,
         << "}" >> >>

\* the operator-setter labels as written in a source, and the SetterLabel of each
SetterLabels ==
    << <<<<"-">>, "Sub">>, <<<<"*">>, "Mul">>, <<<<"/">>, "Div">>,
       <<<<"%">>, "Mod">>, <<<<"+">>, "Add">>,
       <<<<".", ".">>, "EllipsisIn">>,
       <<<<".", ".", ".">>, "EllipsisOut">>, <<<<"<", "<">>, "LShift">>,
       <<<<"&">>, "BitAnd">>, <<<<"^">>, "BitXor">>, <<<<"|">>, "BitOr">>,
       <<<<">">>, "Gt">>, <<<<"<">>, "Lt">>, <<<<"=", "=">>, "Eq">>,
       <<<<"<", "=">>, "Le">>, <<<<">", "=">>, "Ge">>,
       <<<<"!", "=">>, "NotEq">>, <<<<"i", "s">>, "Is">> >>

\* `l (a) {}`: an operator setter with the label l
OpSetterSrc(l) == l \o <<" ", "(", "a", ")", " ", "{", "}">>

\* the lexemes assignment accepts after its left-hand side, and the AssignOp of each:
\* the token of the lexeme (lexer.rs) through the table of op (parser.rs:202-216)
AssignOps ==
    << <<<<"=">>, "Assign">>, <<<<"+", "=">>, "Add">>,
       <<<<"-", "=">>, "Mul">>, <<<<"*", "=">>, "Sub">>,
       <<<<"/", "=">>, "Div">>, <<<<"&", "=">>, "And">>,
       <<<<"|", "=">>, "Or">>, <<<<"^", "=">>, "Xor">>,
       <<<<"%", "=">>, "Mod">>, <<<<"<", "<">>, "LShift">>,
       <<<<">", ">">>, "RShift">>, <<<<">", ">", ">", "=">>, "URShift">> >>

\* lexemes of tokens the table of op does not hold
NotAssignOps == << <<"<", "<", "=">>, <<">", ">", "=">>, <<"=", "=">>, <<"-">> >>

\* `a o b` and `var a o b`: an assignment with the operator lexeme o
AssignSrc(o) == <<"a", " ">> \o o \o <<" ", "b">>

VarAssignSrc(o) == <<"v", "a", "r", " ">> \o AssignSrc(o)

\* the sources of arith_test
Src_arith_test ==
    { <<"*", " ", "1">>,
      <<"/", " ", "2">>,
      <<"+", " ", "3">>,
      <<".", ".", " ", "4">>,
      <<"|", " ", "1">>,
      <<"-", " ", "-", "i", "d">>,
      <<"+", " ", "1", " ", "*", " ", "2", " ", "-", " ", "(", "x", " ", "/", " ", "5", ")">> }

\* `* + 3`: a multiplication sign before an addition
Src_arith_mul_add == <<"*", " ", "+", " ", "3">>

\* the most `else if` branches of the checked if statements
MaxBranches == 2

\* ` else if(c) s` for the branches n, n - 1, .., 1 in source order, the
\* condition and the statement of branch k being the k-th letters of the two words
RECURSIVE ElseIfs(_)
ElseIfs(n) ==
    IF n = 0 THEN <<>>
    ELSE ElseIfs(n - 1)
         \o <<" ", "e", "l", "s", "e", " ", "i", "f", "(", <<"b", "c", "d">>[n], ")",
              " ", <<"p", "q", "r">>[n]>>

\* `if(a) x`, n branches `else if(c) s` and, with els, a terminal `else z`
IfSrc(n, els) ==
    <<"i", "f", "(", "a", ")", " ", "x">> \o ElseIfs(n)
        \o (IF els THEN <<" ", "e", "l", "s", "e", " ", "z">> ELSE <<>>)

\* the lexable sources of if_test, and one with blocks as the statements
Src_if_test ==
    { <<"i", "f", "(", "1", ")", " ", "0", " ", "e", "l", "s", "e", " ",
        "i", "f", "(", "2", ")", " ", "a", " ", "e", "l", "s", "e",
        " ", "i", "f", "(", "3", ")", " ", "[", "]", " ", "e", "l",
        "s", "e", " ", "a">>,
      <<"i", "f", "(", "t", "r", "u", "e", ")", " ", "a", " ", "=", " ",
        "b", " ", "e", "l", "s", "e", " ", "i", "f", "(", "a", " ",
        ">", " ", "b", ")", " ", "1", " ", "e", "l", "s", "e", " ",
        "i", "f", "(", "c", ")", " ", "a">>,
      <<"i", "f", "(", "a", " ", ">", " ", "b", " ", "|", "|", " ", "b",
        " ", ">", " ", "c", ")", " ", "{", "a", "}", " ", "e", "l",
        "s", "e", " ", "{", " ", "c", " ", "}">> }

\* the sources of several lines
Texts == { Src_constructor_test }

\* `while (a) b`: while with an expression as condition
Src_while_expr ==
    << "w", "h", "i", "l", "e", " ", "(", "a", ")", " ", "b" >>

\* `while (x = a) b`: while with an assignment as condition
Src_while_assign ==
    << "w", "h", "i", "l", "e", " ", "(", "x", " ", "=", " ", "a", ")", " ",
       "b" >>

\* `while (var x = a) b`: while with a var assignment as condition
Src_while_var_assign ==
    << "w", "h", "i", "l", "e", " ", "(", "v", "a", "r", " ", "x", " ", "=",
       " ", "a", ")", " ", "b" >>

\* `while(var x = a) var x = b`: statement_test
Src_while_test ==
    << "w", "h", "i", "l", "e", "(", "v", "a", "r", " ", "x", " ", "=", " ",
       "a", ")", " ", "v", "a", "r", " ", "x", " ", "=", " ", "b" >>

\* `a as b`: an import variable with a lowercase `as` (import_mod_test)
Src_import_as ==
    << "a", " ", "a", "s", " ", "b" >>

\* `a AS b`: an import variable with the uppercase `AS`
Src_import_AS ==
    << "a", " ", "A", "S", " ", "b" >>

\* `import "abc" for a as b, b as d`: import_mod_test
Src_import_module ==
    << "i", "m", "p", "o", "r", "t", " ", "\"", "a", "b", "c", "\"", " ",
       "f", "o", "r", " ", "a", " ", "a", "s", " ", "b", ",", " ", "b", " ",
       "a", "s", " ", "d" >>

\* the sources of statement_test without a `!`, and a block
Src_statement_test ==
    { << "a", " ", "+", " ", "2" >>,
      << "v", "a", "r", " ", "a", " ", "=", " ", "1" >>,
      << "v", "a", "r", " ", "a" >>,
      << "f", "o", "r", "(", "x", " ", "i", "n", " ", "[", "1", ",", "2", ",",
         "3", "]", ")", " ", "p", "r", "i", "n", "t", "l", "n", "(", "a", ")" >>,
      << "r", "e", "t", "u", "r", "n", " ", "x" >>,
      << "{", " ", "a", " ", "}" >> }

Sources ==
    { Src_class_empty,
      Src_class_then_unit,
      Src_block_pipe,
      Src_block_pipes,
      Src_block_open_param,
      Src_block_or,
      Src_block_param,
      Src_block_shifts,
      Src_block_empty,
      Src_setter,
      Src_constructor,
      Src_constructor_bare,
      Src_while_expr,
      Src_while_assign,
      Src_while_var_assign,
      Src_while_test,
      Src_import_as,
      Src_import_AS,
      Src_import_module }
        \cup Src_arith_test \cup {Src_arith_mul_add}
        \cup Src_if_test \cup Src_statement_test
        \* an optional part that is absent, present, or begun and not ended
        \cup { << "[", " ", "]" >>,
               << "[", " ", "-", " ", "]" >>,
               << "[", " ", "a", " ", "]" >>,
               << "{", " ", "}" >>,
               << "{", " ", "a", " ", "}" >>,
               << "{", " ", "a", " ", ":", " ", "b", " ", "}" >>,
               << "a", " ", "(", " ", "a", " ", "b" >>,
               << "a", " ", "(", " ", "-", " ", ")" >>,
               << "a", " ", "(", " ", ")" >>,
               << "a", " ", "(", " ", "b", " ", ")" >>,
               << "a", " ", "b" >>,
               << "f", "n", " ", "a", " ", "(", " ", "-", " ", ")", " ", "{", " ", "}" >>,
               << "a", " ", "A", "S", " ", "-", " ", "b" >> }
        \cup {IfSrc(n, els) : n \in 0..MaxBranches, els \in BOOLEAN}
        \cup {OpSetterSrc(SetterLabels[i][1]) : i \in 1..Len(SetterLabels)}
        \cup {AssignSrc(AssignOps[i][1]) : i \in 1..Len(AssignOps)}
        \cup {VarAssignSrc(AssignOps[i][1]) : i \in {1, 3}}
        \cup {AssignSrc(NotAssignOps[i]) : i \in 1..Len(NotAssignOps)}

\* CypherParser::new(src) is Ok for a source without Token::Error
InitSrc ==
    /\ tokens \in {r.tokens : r \in {x \in {Lex(src) : src \in Sources} : x.ok}}
                  \cup {r.tokens : r \in {x \in {LexLines(t) : t \in Texts} : x.ok}}
    /\ table = <<>>
    /\ op = "new"
    /\ arg = 0
    /\ out = Fail(0)

SpecSrc == InitSrc /\ [][Next]_vars

\* ------------------------------------------------------------------------
\* CypherLexer::new step by step: one iteration of its loop per step
\* ------------------------------------------------------------------------

\* the longest checked text of the characters of numbers
MaxLex == 3

\* the texts of at most n characters that numbers are written with
RECURSIVE LexTexts(_)
LexTexts(n) ==
    IF n = 0 THEN {<<>>}
    ELSE LET shorter == LexTexts(n - 1)
         IN  shorter \cup {Append(v, c) : v \in {w \in shorter : Len(w) = n - 1},
                                          c \in {"0", "1", "_", "-", "x", "f", ".", "e", "b"}}

\* the sources of number_test, and numbers of each form of Token::Digit
NumberSources ==
    { <<"-", "1">>,
      <<"1", ".", "1", "e", "1">>,
      <<"1", "e", "1">>,
      <<"1", " ", "0", "1", " ", "0", "1", " ", "1", "e", "1", " ",
        "1", "e", "-", "1", " ", "0", "x", "1", " ", "1", ".",
        "1", " ", "1", ".", "0", "e", "1">>,
      <<"0", "b", "1", "1", "0", "1">>,
      <<"-", "0", "x", "1", "f">>,
      <<"0", "x", "1", "_", "f">>,
      <<"0", "x", "1", "f">>,
      <<"1", ".", "5", "f">>,
      <<"1", ".", "5", "F">>,
      <<"2", ".", "5", "d">>,
      <<"9", "2", "2", "3", "3", "7", "2", "0", "3", "6", "8", "5",
        "4", "7", "7", "5", "8", "0", "7">>,
      <<"9", "2", "2", "3", "3", "7", "2", "0", "3", "6", "8", "5",
        "4", "7", "7", "5", "8", "0", "8">>,
      <<"a", " ", "-", " ", "1">> }

\* delegate.next() from i on: whitespace skipped, then the token and the index
\* after it; None at the end of the source
Delegate(src, i) ==
    LET j == i + RunLen(src, i, Spaces)
    IN  IF j > Len(src) THEN None
        ELSE LET t == NextToken(src, j)
             IN  Some([tok |-> t.tok, from |-> j, next |-> j + t.n])

\* CypherLexer::new(source): the lexer is at the start of the source
InitLex ==
    /\ arg \in [src : LexTexts(MaxLex) \cup NumberSources, i : {1}]
    /\ tokens = <<>>
    /\ table = <<>>
    /\ op = "lex"
    /\ out = Fail(0)

\* t => tokens.push(t)
LexPush ==
    /\ op = "lex"
    /\ \E d \in {Delegate(arg.src, arg.i)} :
           /\ d # None
           /\ d[2].tok # <<"Error">>
           /\ tokens' = Append(tokens, d[2].tok)
           /\ arg' = [arg EXCEPT !.i = d[2].next]
    /\ UNCHANGED <<table, op, out>>

\* Token::Error => return Err(ParseError::BadToken(slice, span))
LexBadToken ==
    /\ op = "lex"
    /\ \E d \in {Delegate(arg.src, arg.i)} :
           /\ d # None
           /\ d[2].tok = <<"Error">>
           /\ out' = Err("BadToken", d[2].from)
    /\ op' = "Err"
    /\ UNCHANGED <<tokens, table, arg>>

\* the loop ends: Ok(CypherLexer { source, tokens })
LexEnd ==
    /\ op = "lex"
    /\ Delegate(arg.src, arg.i) = None
    /\ op' = "Ok"
    /\ out' = Ok(tokens)
    /\ UNCHANGED <<tokens, table, arg>>

NextLex == LexPush \/ LexBadToken \/ LexEnd

SpecLex == InitLex /\ [][NextLex]_vars

\* ------------------------------------------------------------------------
\* The ParseResult algebra on its own: combinators applied to results and to
\* abstract rules, which may return anything a rule can (hard errors too)
\* ------------------------------------------------------------------------

MaxPos == 2

MaxAlts == 2

Positions == 0..MaxPos

\* what a rule may have returned before a combinator is called on its result
Returned ==
    {Success(<<"r0">>, p) : p \in Positions}
        \cup {Fail(p) : p \in Positions}
        \cup {Error("ReachedEOF", p) : p \in Positions}
        \cup {Error("FailedOnValidation", p) : p \in Positions}
        \cup {Error("BadToken", 0)}

\* what a rule called at p may return and end a repetition with: a failure at p
\* or further, a hard error, or a success that does not advance
Stops(p) ==
    {Fail(q) : q \in p..MaxPos}
        \cup {Error("ReachedEOF", q) : q \in p..MaxPos}
        \cup {Error("FailedOnValidation", p), Error("BadToken", 0)}
        \cup {Success(<<>>, p)}

Outcomes(p) == Stops(p) \cup {Success(<<>>, q) : q \in (p + 1)..MaxPos}

\* an abstract rule first called at p: its results at the cursors it is called
\* at by a combinator that follows its successes
RECURSIVE Rules(_)
Rules(p) ==
    {(p :> o) : o \in Stops(p)}
        \cup UNION {{(p :> Success(<<>>, q)) @@ rest : rest \in Rules(q)} :
                    q \in (p + 1)..MaxPos}

\* the closure |p| g(p) of the abstract rule called name: its value tells the
\* call that made it, and the call is recorded in inv
Invoke(name, g, p) ==
    LET r == IF p \in DOMAIN g THEN g[p] ELSE Fail(p)
    IN  [r EXCEPT !.val = IF IsSuccess(r) THEN <<name, p>> ELSE <<>>,
                  !.inv = <<<<name, p>>>>]

Applied(name, s, g, a, n, r) ==
    /\ op' = name
    /\ arg' = [self |-> s, g |-> g, anchor |-> a, n |-> n]
    /\ out' = r
    /\ UNCHANGED <<tokens, table>>

InitAlg ==
    /\ tokens \in {[i \in 1..n |-> <<"Null">>] : n \in Positions}
    /\ table = <<>>
    /\ op = "new"
    /\ arg = 0
    /\ out = Fail(0)

\* a rule returns s: the result the combinators below are called on
Rule == \E s \in Returned : Applied("rule", Fail(0), <<>>, s.pos, 0, s)

Then ==
    /\ op = "rule"
    /\ \E g \in Rules(out.pos) :
           Applied("then", out, g, out.pos, 0, then(out, LAMBDA p : Invoke("g", g, p)))

ThenZip ==
    /\ op = "rule"
    /\ \E g \in Rules(out.pos) :
           Applied("then_zip", out, g, out.pos, 0,
                   then_zip(out, LAMBDA p : Invoke("g", g, p)))

ThenOrValZip ==
    /\ op = "rule"
    /\ \E g \in Rules(out.pos) :
           Applied("then_or_val_zip", out, g, out.pos, 0,
                   then_or_val_zip(out, LAMBDA p : Invoke("g", g, p), <<"d">>))

ThenMultiZip ==
    /\ op = "rule"
    /\ \E g \in Rules(out.pos) :
           Applied("then_multi_zip", out, g, out.pos, 0,
                   then_multi_zip(out, LAMBDA p : Invoke("g", g, p)))

Or ==
    /\ op = "rule"
    /\ \E g \in Rules(out.pos) :
           Applied("or", out, g, out.pos, 0, or(out, LAMBDA p : Invoke("g", g, p)))

OrVal ==
    /\ op = "rule"
    /\ Applied("or_val", out, <<>>, out.pos, 0, or_val(out, <<"d">>))

\* the repetitions are started at the cursor of the result at hand
ZeroOrMore ==
    /\ op = "rule"
    /\ \E g \in Rules(out.pos) :
           Applied("zero_or_more", out, g, out.pos, 0,
                   zero_or_more(out.pos, LAMBDA p : Invoke("g", g, p)))

OneOrMore ==
    /\ op = "rule"
    /\ \E g \in Rules(out.pos) :
           Applied("one_or_more", out, g, out.pos, 0,
                   one_or_more(out.pos, LAMBDA p : Invoke("g", g, p)))

ValidateEof ==
    /\ op = "rule"
    /\ Applied("validate_eof", out, <<>>, out.pos, 0, validate_eof(out))

IntoResult ==
    /\ op = "rule"
    /\ Applied("into_result", out, <<>>, out.pos, 0, into_result(out))

\* r0.or_from(a), then .or(A1).or(A2)... and .into(): out is the Alt
OrFrom ==
    /\ op = "rule"
    /\ \E a \in Positions : Applied("or_from", out, <<>>, a, 0, or_from(out, a))

AltOr ==
    /\ op \in {"or_from", "Alt_or"}
    /\ arg.n < MaxAlts
    /\ \E o \in Outcomes(out.init_pos) :
           LET g == (out.init_pos :> o)
           IN  Applied("Alt_or", out, g, out.init_pos, arg.n + 1,
                       Alt_or(out, LAMBDA p : Invoke("g", g, p)))

Into ==
    /\ op \in {"or_from", "Alt_or"}
    /\ Applied("into", out, <<>>, out.init_pos, arg.n, into(out))

NextAlg ==
    \/ Rule
    \/ Then
    \/ ThenZip
    \/ ThenOrValZip
    \/ ThenMultiZip
    \/ Or
    \/ OrVal
    \/ ZeroOrMore
    \/ OneOrMore
    \/ ValidateEof
    \/ IntoResult
    \/ OrFrom
    \/ AltOr
    \/ Into

SpecAlg == InitAlg /\ [][NextAlg]_vars

\* ------------------------------------------------------------------------
\* Properties of the algebra (SpecAlg)
\* ------------------------------------------------------------------------

\* the result of the abstract rule of the last step when called at p
G(p) == Invoke("g", arg.g, p)

\* C1: anchored alternation is ordered choice from the anchor. A step .or(A)
\* of a chain anchored at a calls A exactly when the current result is Fail or
\* ReachedEOF, calls it once, at a (whatever position the failure carried), and
\* A(a) becomes the current result; a Success or a hard Error is kept and A is
\* not called. The anchor never changes and into() gives the current result.
C1_OrderedChoice ==
    /\ op = "Alt_or" =>
           /\ out.init_pos = arg.self.init_pos
           /\ out.init_pos = arg.anchor
           /\ IF IsFail(arg.self.current) \/ IsReachedEOF(arg.self.current)
              THEN out.current = After(arg.self.current, G(arg.anchor))
              ELSE out.current = arg.self.current
    /\ op = "into" => out = arg.self.current

\* C1 witness: the second alternative of a chain is called at the anchor after
\* the first failed beyond it, and its Success is the result.
C1_Witness ==
    /\ op = "Alt_or"
    /\ arg.n = 2
    /\ IsFail(arg.self.current)
    /\ arg.self.current.inv # <<>>
    /\ arg.self.current.pos > arg.anchor
    /\ IsSuccess(out.current)
    /\ out.current.val = <<"g", arg.anchor>>

\* the results of every call of the abstract rule made during the last step
Calls(r) == {G(r.inv[k][2]) : k \in 1..Len(r.inv)}

\* C2 (as the specification states it): a combinator given a hard Error, or
\* whose sub-rule returns one on any call, returns that same Error.
C2_HardErrorShortCircuits ==
    /\ op \in {"then", "then_zip", "then_or_val_zip", "then_multi_zip", "or", "or_val"} =>
           /\ IsHard(arg.self) => Res(out) = Res(arg.self)
           /\ \A c \in Calls(out) : IsHard(c) => Res(out) = Res(c)
    /\ op \in {"zero_or_more", "one_or_more"} =>
           \A c \in Calls(out) : IsHard(c) => Res(out) = Res(c)
    /\ op = "Alt_or" =>
           /\ IsHard(arg.self.current) => Res(out.current) = Res(arg.self.current)
           /\ IsHard(G(arg.anchor)) /\ out.current.inv # arg.self.current.inv
                  => Res(out.current) = Res(G(arg.anchor))

\* C4: validate_eof(r) is r when r is Success(v, p) with p the token count,
\* Error(UnreachedEOF(p)) when p is any other cursor, and r itself when r is a
\* Fail or an Error.
C4_ValidateEof ==
    op = "validate_eof" =>
        Res(out) = IF IsSuccess(arg.self) /\ arg.self.pos # len
                   THEN Res(Error("UnreachedEOF", arg.self.pos))
                   ELSE Res(arg.self)

\* C4 witness: a Success that stops before the last token is turned into
\* UnreachedEOF.
C4_Witness ==
    /\ op = "validate_eof"
    /\ IsSuccess(arg.self)
    /\ arg.self.pos < len
    /\ out.tag = "Error"
    /\ out.err = "UnreachedEOF"

\* C5 (as the specification states it): zero_or_more(a, f), when it returns,
\* returns Success(vec, p) with p >= a, and Success([], a) when f fails at a.
C5_AlwaysSuccess ==
    op = "zero_or_more" /\ out.tag # "Diverges" =>
        /\ IsSuccess(out)
        /\ out.pos >= arg.anchor
        /\ IsSoft(G(arg.anchor)) => Res(out) = Res(Success(<<>>, arg.anchor))

\* C5 (amended): zero_or_more(a, f), when it returns, never returns Fail or
\* ReachedEOF. It returns the hard Error of f's first call when that call
\* returns one, and otherwise Success(vec, p) with p >= a; when f returns Fail
\* or ReachedEOF at a the result is Success([], a), whatever position the
\* failure carried.
C5_ZeroOrMore ==
    op = "zero_or_more" /\ out.tag # "Diverges" =>
        /\ ~IsSoft(out)
        /\ IF IsHard(G(arg.anchor))
           THEN Res(out) = Res(G(arg.anchor))
           ELSE IsSuccess(out) /\ out.pos >= arg.anchor
        /\ IsSoft(G(arg.anchor)) => Res(out) = Res(Success(<<>>, arg.anchor))

\* C5 witness: f fails beyond the anchor and the result is the empty vector at
\* the anchor.
C5_Witness ==
    /\ op = "zero_or_more"
    /\ IsFail(G(arg.anchor))
    /\ G(arg.anchor).pos > arg.anchor
    /\ Res(out) = Res(Success(<<>>, arg.anchor))

\* C9: or_val(d) turns Fail(p) and Error(ReachedEOF(p)) into Success(d, p) and
\* leaves a Success or a hard Error alone. then_or_val_zip(g, d) on
\* Success(t, q) calls g once at q and returns Success((t, v), p) of g's
\* Success(v, p), Success((t, d), p) with the position p of g's Fail(p) or
\* ReachedEOF(p), and g's hard Error; on a Fail or Error it returns it and
\* does not call g.
C9_DefaultAtFailurePosition ==
    /\ op = "or_val" =>
           Res(out) = IF IsFail(arg.self) \/ IsReachedEOF(arg.self)
                      THEN Res(Success(<<"d">>, arg.self.pos))
                      ELSE Res(arg.self)
    /\ op = "then_or_val_zip" =>
           IF IsSuccess(arg.self)
           THEN LET r == G(arg.self.pos)
                IN  /\ out.inv = <<<<"g", arg.self.pos>>>>
                    /\ Res(out) =
                         IF IsSuccess(r) THEN Res(Success(<<arg.self.val, r.val>>, r.pos))
                         ELSE IF IsFail(r) \/ IsReachedEOF(r)
                              THEN Res(Success(<<arg.self.val, <<"d">>>>, r.pos))
                              ELSE Res(r)
           ELSE out = arg.self

\* C9 witness: g fails beyond the cursor of the Success it follows, and the
\* default is given at g's position.
C9_Witness ==
    /\ op = "then_or_val_zip"
    /\ IsSuccess(arg.self)
    /\ IsFail(G(arg.self.pos))
    /\ G(arg.self.pos).pos > arg.self.pos
    /\ IsSuccess(out)
    /\ out.pos = G(arg.self.pos).pos
    /\ out.val = <<arg.self.val, <<"d">>>>
\* C11: the conversion into Result maps Success(v, _) to Ok(v), Fail(_) at any
\* position to Err(FinishedOnFail) and Error(e) to Err(e), e unchanged; its
\* result is never a bare Fail.
C11_IntoResult ==
    op = "into_result" =>
        /\ out.tag \in {"Ok", "Err"}
        /\ out = IF IsSuccess(arg.self) THEN Ok(arg.self.val)
                 ELSE IF IsFail(arg.self) THEN Err("FinishedOnFail", 0)
                 ELSE Err(arg.self.err, arg.self.pos)

\* C11 witness: a Fail beyond cursor 0 is converted to Err(FinishedOnFail).
C11_Witness ==
    /\ op = "into_result"
    /\ IsFail(arg.self)
    /\ arg.self.pos > 0
    /\ out = Err("FinishedOnFail", 0)

\* ------------------------------------------------------------------------
\* Properties of the grammar on the source texts (SpecSrc)
\* ------------------------------------------------------------------------

\* the token at cursor p (the vector is indexed from 1)
At(p) == tokens[p + 1]

\* C12 (as the specification states it): whenever class_def returns
\* Success(_, p), the token at p - 1 is the closing brace of the class.
C12_ClosingBraceConsumed ==
    op = "class_def" /\ IsSuccess(out) => out.pos >= 1 /\ At(out.pos - 1) = <<"RBrace">>

\* C13 (as the specification states it): a block whose `{` is followed by a
\* pipe succeeds only with a non-empty parameter list closed by a second pipe,
\* and on the source `{|| >> >>}` block(0) is Fail(1).
C13_BlockParamsClosed ==
    /\ op = "block" /\ arg + 1 < len /\ At(arg + 1) = <<"BitOr">> /\ IsSuccess(out)
       => /\ out.val.params.ids # <<>>
          /\ arg + 1 + 2 * Len(out.val.params.ids) < len
          /\ At(arg + 1 + 2 * Len(out.val.params.ids)) = <<"BitOr">>
    /\ op = "block" /\ arg = 0 /\ tokens = Lex(Src_block_or).tokens
       => Res(out) = Res(Fail(1))

\* C14 (as the specification states it): on id `=` `(` id `)` block,
\* class_statement returns the Setter of the name, the argument and the block
\* with the cursor past the block.
C14_SetterRecognised ==
    op = "class_statement" /\ arg = 0 /\ tokens = Lex(Src_setter).tokens
        => /\ IsSuccess(out)
           /\ out.pos = len
           /\ out.val[1] = "Setter"
           /\ out.val[2] = [value |-> <<"a">>]
           /\ out.val[3] = [value |-> <<"b">>]

\* C20 (as the specification states it): on `construct` id `(` id {`,` id} `)`
\* block, class_statement returns the Constructor with the cursor past the
\* block's closing brace; the test source of 53 tokens yields cursor 53.
C20_ConstructorParenthesised ==
    /\ op = "class_statement" /\ arg = 0 /\ tokens = Lex(Src_constructor).tokens
           => IsSuccess(out) /\ out.pos = len /\ out.val[1] = "Constructor"
    /\ op = "class_statement" /\ arg = 0 /\ tokens = LexLines(Src_constructor_test).tokens
           => len = 53 /\ IsSuccess(out) /\ out.pos = 53

\* C15 (as the specification states it): for every operator-setter label,
\* class_statement on label `(` id `)` block returns the OpSetter of that
\* label, the identifier and the block, and consumes all the tokens.
C15_OpSetterLabels ==
    \A i \in 1..Len(SetterLabels) :
        op = "class_statement" /\ arg = 0
            /\ tokens = Lex(OpSetterSrc(SetterLabels[i][1])).tokens
        => /\ IsSuccess(out)
           /\ out.pos = len
           /\ out.val[1] = "OpSetter"
           /\ out.val[2] = SetterLabels[i][2]
           /\ out.val[3] = [value |-> <<"a">>]

C17_WhileEitherCondition ==
    /\ op = "while_statement"
    /\ arg = 0
    /\ len >= 2
    /\ tokens[1] = <<"While">>
    /\ tokens[2] = <<"LParen">>
    => \A r \in {"expression", "assignment"} :
           LET c == table[<<r, 2>>]
           IN  /\ IsSuccess(c)
               /\ c.pos < len
               /\ tokens[c.pos + 1] = <<"RParen">>
               /\ IsSuccess(table[<<"statement", c.pos + 1>>])
               /\ table[<<"statement", c.pos + 1>>].pos = len
               => /\ IsSuccess(out)
                  /\ out.pos = len
                  /\ out.val.cond[1] = (IF r = "expression" THEN "Expression"
                                        ELSE "Assignment")

\* the token of the operator of an Arithmetic node
NodeToken(node) ==
    CASE node[1] = "Mul" -> [Mul |-> "Mult", Div |-> "Div", Mod |-> "Mod"][node[2]]
      [] node[1] = "Add" -> IF node[2] THEN "Add" ELSE "Sub"
      [] node[1] = "Range" -> IF node[2] THEN "EllipsisOut" ELSE "EllipsisIn"
      [] node[1] = "Shift" -> IF node[2] THEN "RShift" ELSE "LShift"
      [] node[1] = "Bit" -> [Or |-> "BitOr", And |-> "BitAnd", Xor |-> "Caret"][node[2]]

\* C18 (as the specification states it): every alternative of arith starts at
\* the anchor: when arith(pos) is Success(node, p), the token at pos is the
\* operator of node, so that no token of [pos, p) is left out of the node.
C18_ArithSameAnchor ==
    op = "arith" /\ Started /\ IsSuccess(out) =>
        /\ arg < len
        /\ tokens[arg + 1] = <<NodeToken(out.val)>>

\* C19 (as the specification states it): the word `as` is the token As, so
\* import_variable on `a as b` is a Success at 3 with the alias b, and
\* import_module on `import "abc" for a as b, b as d` is a Success at 10 with
\* the aliases b and d.
C19_LowercaseAs ==
    /\ op = "import_variable" /\ arg = 0 /\ tokens = Lex(Src_import_as).tokens =>
           /\ tokens[2] = <<"As">>
           /\ IsSuccess(out)
           /\ out.pos = 3
           /\ out.val.alias = Some([value |-> <<"b">>])
    /\ op = "import_module" /\ arg = 0 /\ tokens = Lex(Src_import_module).tokens =>
           /\ IsSuccess(out)
           /\ out.pos = 10
           /\ Len(out.val.variables) = 2
           /\ out.val.variables[1].alias = Some([value |-> <<"b">>])
           /\ out.val.variables[2].alias = Some([value |-> <<"d">>])

C22_NumericLexemes ==
    /\ op \in {"Ok", "Err"}
    /\ arg.src # <<>>
    /\ DigitLen(arg.src, 1) = Len(arg.src)
    => /\ out.tag = "Ok"
       /\ Len(out.val) = 1
       /\ out.val[1][1] = "Digit"

\* C23: then and then_zip on f = Success(t, p) call g once, at p, and return
\* g's Success (with g's value, or the pair of t and g's value), g's Fail or
\* g's Error, ReachedEOF included; on a Fail or an Error they return it
\* unchanged and do not call g.
C23_Sequencing ==
    op \in {"then", "then_zip"} =>
        IF IsSuccess(arg.self)
        THEN LET r == G(arg.self.pos)
             IN  /\ out.inv = <<<<"g", arg.self.pos>>>>
                 /\ Res(out) =
                      IF IsSuccess(r)
                      THEN Res(Success(IF op = "then" THEN r.val
                                       ELSE <<arg.self.val, r.val>>, r.pos))
                      ELSE Res(r)
        ELSE /\ out = arg.self
             /\ out.inv = <<>>

\* C23 witness: g is called after a Success and runs out of tokens beyond it;
\* the result is g's ReachedEOF.
C23_Witness ==
    /\ op = "then_zip"
    /\ IsSuccess(arg.self)
    /\ IsReachedEOF(G(arg.self.pos))
    /\ G(arg.self.pos).pos > arg.self.pos
    /\ Res(out) = Res(Error("ReachedEOF", G(arg.self.pos).pos))

\* the cursors g is called at by a repetition started at q: q, then the cursor
\* of each Success
RECURSIVE Chain(_)
Chain(q) ==
    IF IsSuccess(G(q)) /\ G(q).pos > q THEN <<q>> \o Chain(G(q).pos) ELSE <<q>>

\* C24: then_multi_zip(g) on Success(t, q), when it returns, has called g at q
\* and at the cursor of each of its successes, in order, and returns
\* Success((t, [v1..vk]), pk), the values of g's successes and the cursor of
\* the last of them (q without one): the position of the attempt that did not
\* succeed is dropped. On a Fail or an Error it returns it and does not call g.
C24_ThenMultiZip ==
    op = "then_multi_zip" /\ out.tag # "Diverges" =>
        IF IsSuccess(arg.self)
        THEN LET calls == Chain(arg.self.pos)
                 k == Len(calls) - 1
             IN  /\ out.inv = [i \in 1..(k + 1) |-> <<"g", calls[i]>>]
                 /\ ~IsSuccess(G(calls[k + 1]))
                 /\ Res(out) = Res(Success(<<arg.self.val,
                                             [i \in 1..k |-> G(calls[i]).val]>>,
                                           calls[k + 1]))
        ELSE out = arg.self

\* C24 witness: g succeeds once and then fails beyond the cursor it left; the
\* result has the one value and that cursor.
C24_Witness ==
    /\ op = "then_multi_zip"
    /\ IsSuccess(arg.self)
    /\ IsSuccess(out)
    /\ Len(out.val[2]) = 1
    /\ IsFail(G(out.pos))
    /\ G(out.pos).pos > out.pos

\* C25 (as the specification states it): one_or_more(a, f) is Fail(a) when f
\* does not succeed at a, and otherwise a Success with one element at least.
C25_FailAtAnchor ==
    op = "one_or_more" /\ out.tag # "Diverges" =>
        IF IsSuccess(G(arg.anchor))
        THEN IsSuccess(out) /\ Len(out.val) >= 1
        ELSE Res(out) = Res(Fail(arg.anchor))

\* C25 (amended): one_or_more(a, f), when it returns, is Fail(a) when f returns
\* Fail or ReachedEOF at a (whatever position the failure carried), f's hard
\* Error when f returns one at a, and otherwise a Success with one element at
\* least; it is never a Success with an empty vector.
C25_OneOrMore ==
    op = "one_or_more" /\ out.tag # "Diverges" =>
        /\ IF IsSoft(G(arg.anchor)) THEN Res(out) = Res(Fail(arg.anchor))
           ELSE IF IsHard(G(arg.anchor)) THEN Res(out) = Res(G(arg.anchor))
           ELSE IsSuccess(out) /\ Len(out.val) >= 1
        /\ ~(IsSuccess(out) /\ out.val = <<>>)

\* C25 witness: f fails beyond the anchor and the result is Fail at the anchor.
C25_Witness ==
    /\ op = "one_or_more"
    /\ IsFail(G(arg.anchor))
    /\ G(arg.anchor).pos > arg.anchor
    /\ Res(out) = Res(Fail(arg.anchor))

\* ------------------------------------------------------------------------
\* More properties of the grammar on token vectors (Spec)
\* ------------------------------------------------------------------------

\* C26: every rule started at a cursor of the input returns: no repetition in
\* it runs forever, and a Success has consumed one token at least, so that a
\* repetition's successful iteration advances. When a rule is evaluated, the
\* results it reads are those of rules at later cursors, or of the rules before
\* it in Order at its own cursor: it does not come back to itself there.
C26_RulesTerminate ==
    Started =>
        /\ out.tag # "Diverges"
        /\ IsSuccess(out) => out.pos > arg
        /\ \A k \in DOMAIN table :
               \/ k[2] > arg
               \/ k[2] = arg /\ Index(k[1]) <= Index(op)

\* C26 witness: script repeats file_unit three times and stops at the end.
C26_Witness ==
    /\ op = "script"
    /\ arg = 0
    /\ IsSuccess(out)
    /\ Len(out.val.units) = 3
    /\ out.pos = len

\* C27: statement returns the result of the first of its alternatives, tried
\* in the order assignment, assignment_null, block, expression, if, while, for,
\* return at the cursor of statement, that is not a Fail or a ReachedEOF: a
\* Success of assignment is the Success of statement, a Success of a later
\* alternative is returned only when every alternative before it failed softly,
\* and `a = b` and `var a = b` are Statement::Assignment.
C27_StatementOrder ==
    LET rules == <<"assignment", "assignment_null", "block", "expression",
                   "if_statement", "while_statement", "for_statement">>
        kinds == <<"Assignment", "AssignmentNull", "Block", "Expression",
                   "If", "While", "For", "Return">>
        a == self("assignment", arg)
    IN  op = "statement" /\ arg <= len =>
            /\ IsSuccess(a) => Res(out) = Res(map(a, LAMBDA v : <<"Assignment", v>>))
            /\ IsSuccess(out) =>
                   \E k \in 1..8 :
                       /\ out.val[1] = kinds[k]
                       /\ \A j \in 1..(k - 1) : IsSoft(self(rules[j], arg))
                       /\ k <= 7 => Res(self(rules[k], arg)) = Res(map(out, LAMBDA v : v[2]))
            /\ arg = 0 /\ tokens \in {Lex(AssignSrc(<<"=">>)).tokens, Lex(VarAssignSrc(<<"=">>)).tokens}
                   => IsSuccess(out) /\ out.val[1] = "Assignment" /\ out.pos = len

\* C27 witness: on `var a = b` assignment_null would succeed after two tokens
\* and statement returns the assignment of all four.
C27_Witness ==
    /\ op = "statement"
    /\ arg = 0
    /\ tokens = Lex(VarAssignSrc(<<"=">>)).tokens
    /\ IsSuccess(self("assignment_null", 0))
    /\ IsSuccess(out)
    /\ out.val[1] = "Assignment"
    /\ out.pos = 4

\* C28 (as the specification states it): an optional part that does not
\* succeed consumes nothing. list_init returns the empty enumeration only on
\* `[` `]`, map_init returns no pairs only on `{` `}`, and a call without
\* middle and without tail has consumed its identifier alone.
C28_OptionalConsumesNothing ==
    arg <= len =>
        /\ op = "list_init" /\ IsSuccess(out) /\ out.val.values = <<>>
               => out.pos = arg + 2
        /\ op = "map_init" /\ IsSuccess(out) /\ out.val[2] = <<>>
               => out.pos = arg + 2
        /\ op = "call" /\ IsSuccess(out) /\ out.val.middle = None /\ out.val.tail = None
               => out.pos = arg + 1

\* C29: the grammar rules return no hard Error: an Error of a rule is
\* ReachedEOF. script returns a Success with one unit at least, or Fail at its
\* own cursor, and no Error at all: the ReachedEOF of its first file_unit is
\* turned into that Fail.
C29_NoHardError ==
    Started =>
        /\ out.tag = "Error" => out.err = "ReachedEOF"
        /\ op = "script" =>
               \/ IsSuccess(out) /\ Len(out.val.units) >= 1
               \/ Res(out) = Res(Fail(arg))

\* C29 witness: the first unit ends at the end of the tokens before it is
\* complete, file_unit returns ReachedEOF there and script returns Fail(0).
C29_Witness ==
    /\ op = "script"
    /\ arg = 0
    /\ len >= 1
    /\ IsReachedEOF(self("file_unit", 0))
    /\ self("file_unit", 0).pos = len
    /\ Res(out) = Res(Fail(0))

\* C30: file_unit tries class_def, function, import_module, statement and
\* block at its own cursor and never returns Unit::Block: wherever block
\* succeeds, statement, which has block among its alternatives, did not fail,
\* and file_unit returns a class, a function, an import or a statement; its
\* fifth alternative is called only where block fails.
C30_UnitBlockDead ==
    op = "file_unit" /\ arg <= len =>
        /\ IsSuccess(out) => out.val[1] \in {"Class", "Fn", "Import", "Statement"}
        /\ IsSuccess(self("block", arg)) =>
               /\ ~IsSoft(self("statement", arg))
               /\ IsSuccess(out)
        /\ IsSoft(self("class_def", arg)) /\ IsSoft(self("function", arg))
               /\ IsSoft(self("import_module", arg))
               => Res(out) = Res(IF IsSoft(self("statement", arg))
                                 THEN map(self("block", arg), LAMBDA b : <<"Block", b>>)
                                 ELSE map(self("statement", arg), LAMBDA s : <<"Statement", s>>))

\* C30 witness: a block alone is the unit Statement(Block), all of it consumed.
C30_Witness ==
    /\ op = "file_unit"
    /\ arg = 0
    /\ IsSuccess(self("block", 0))
    /\ IsSuccess(out)
    /\ out.val = <<"Statement", <<"Block", self("block", 0).val>>>>
    /\ out.pos = len

====
